---- MODULE Spec2Model ----
(***************************************************************************)
(* Verification model of the GTI algebra (mp_base.py), of the Welch        *)
(* spectral estimation engine (mp_fspec.py), of the event reader           *)
(* (maltpynt/read_events.py) and of the pulsation search                   *)
(* (hendrics/efsearch.py).                                                 *)
(*                                                                         *)
(* The functions are pure: a state holds the function that was called,     *)
(* its arguments and what it returned or raised, with the files it saved.  *)
(* The worker pool of read_events.main is a machine of its own, whose      *)
(* state is batch, and an InteractivePhaseogram is the object widget.      *)
(* Times are integers: every comparison, sum and                           *)
(* difference of the source is exact on them.  Frequencies are binary      *)
(* floating-point numbers with a significand of Prec bits, held as exact   *)
(* fractions <<n, d>>.  Python's zero-based indices are kept as values;    *)
(* At(s, i) reads s[i].                                                    *)
(***************************************************************************)
EXTENDS Integers, Sequences, FiniteSets, TLC

VARIABLES call, args, ret, batch, widget

vars == <<call, args, ret, batch, widget>>

(* ------------------------------ bounds --------------------------------- *)
\* time coordinates are 0..MaxT
MaxT == 6
\* longest time array handed to mp_create_gti_from_condition, longest light
\* curve
MaxLen == 3
\* longest time array handed to mp_create_gti_mask
MaxMaskLen == 2
\* most intervals in one GTI list
MaxGti == 2
\* largest safe interval / minimum length
MaxMargin == 1
\* largest grid step of mp_cross_gtis, largest bin time of a light curve
MaxBin == 2
\* largest segment length (fftlen)
MaxFft == 2
\* largest number of counts in one bin of a light curve
MaxCount == 1
\* the light curves handed to the Welch routines have their bins in 0..MaxWT
MaxWT == 3

(* ------------------------------ helpers -------------------------------- *)
At(s, i) == s[i + 1]

Min2(a, b) == IF a <= b THEN a ELSE b

\* the value a call hands back: what it returned, or the exception it raised
Returned(v) == [raised |-> "none", value |-> v]

Raised(e) == [raised |-> e, value |-> <<>>]

(* ------------------------------ input sets ----------------------------- *)
Times == 0..MaxT

Intervals == {g \in Times \X Times : g[1] < g[2]}

\* sorted, non-overlapping GTI lists (the documented precondition)
IsGtiList(s) == \A i \in 1..(Len(s) - 1) : s[i][2] <= s[i + 1][1]

GtiLists == {s \in UNION {[1..n -> Intervals] : n \in 0..MaxGti} : IsGtiList(s)}

\* strictly ascending time arrays
IsAscending(s) == \A i \in 1..(Len(s) - 1) : s[i] < s[i + 1]

TimeArrays == {s \in UNION {[1..n -> Times] : n \in 0..MaxLen} : IsAscending(s)}

MaskTimeArrays == {s \in TimeArrays : Len(s) <= MaxMaskLen}

\* safe_interval is a scalar, which stands for the same margin on both sides,
\* or a pair of different margins
SafeIntervals ==
    {<<"scalar", m>> : m \in 0..MaxMargin}
    \cup {<<"pair", m[1], m[2]>> :
              m \in {p \in (0..MaxMargin) \X (0..MaxMargin) : p[1] # p[2]}}

(* ------------------------------ mp_base.py ----------------------------- *)
\* "if not isinstance(safe_interval, collections.Iterable)"
AsPair(safe_interval) ==
    IF safe_interval[1] = "scalar"
    THEN <<safe_interval[2], safe_interval[2]>>
    ELSE <<safe_interval[2], safe_interval[3]>>

\* np.diff of a boolean array: True where neighbours differ
NpDiff(condition) ==
    [i \in 1..(Len(condition) - 1) |-> condition[i + 1] # condition[i]]

\* the zero-based indices of the True entries, ascending
RECURSIVE NonzeroFrom(_, _)
NonzeroFrom(d, i) ==
    IF i > Len(d) THEN <<>>
    ELSE IF d[i] THEN <<i - 1>> \o NonzeroFrom(d, i + 1)
    ELSE NonzeroFrom(d, i + 1)

Nonzero(d) == NonzeroFrom(d, 1)

\* idx.shape = (-1, 2)
Reshape2(idx) == [k \in 1..(Len(idx) \div 2) |-> <<idx[2 * k - 1], idx[2 * k]>>]

mp_contiguous_regions(condition) ==
    LET diff == NpDiff(condition)
        nz   == Nonzero(diff)
        idx0 == [k \in 1..Len(nz) |-> nz[k] + 1]
        idx1 == IF condition[1] THEN <<0>> \o idx0 ELSE idx0
        idx2 == IF condition[Len(condition)] THEN idx1 \o <<Len(condition)>> ELSE idx1
    IN  Reshape2(idx2)

\* one pass of the loop over the GTIs; st = [mask, newgtis]
MaskStepLoose(time, gti, si, min_length, st) ==
    LET limmin == gti[1] + si[1]
        limmax == gti[2] - si[2]
    IN  IF limmax - limmin > min_length
        THEN [mask    |-> [i \in 1..Len(time) |->
                              st.mask[i] \/ (time[i] >= limmin /\ time[i] <= limmax)],
              newgtis |-> Append(st.newgtis, <<limmin, limmax>>)]
        ELSE st

MaskStep(time, gti, si, min_length, st) ==
    LET limmin == gti[1] + si[1]
        limmax == gti[2] - si[2]
    IN  IF limmax - limmin > min_length
        THEN [mask    |-> [i \in 1..Len(time) |->
                              st.mask[i] \/ (time[i] >= limmin /\ time[i] < limmax)],
              newgtis |-> Append(st.newgtis, <<limmin, limmax>>)]
        ELSE st

RECURSIVE MaskLoop(_, _, _, _, _, _)
MaskLoop(time, gtis, si, min_length, ig, st) ==
    IF ig > Len(gtis) THEN st
    ELSE MaskLoop(time, gtis, si, min_length, ig + 1,
                  MaskStep(time, gtis[ig], si, min_length, st))

\* returns [mask, newgtis[newgtimask]] (return_new_gtis=True)
mp_create_gti_mask(time, gtis, safe_interval, min_length) ==
    MaskLoop(time, gtis, AsPair(safe_interval), min_length, 1,
             [mask |-> [i \in 1..Len(time) |-> FALSE], newgtis |-> <<>>])

\* one pass of the loop over the regions
CondStepOutward(time, idx, si, gtis) ==
    LET t0 == At(time, idx[1]) - si[1]
        t1 == At(time, Min2(idx[2], Len(time) - 1)) + si[2]
    IN  IF t1 - t0 < 0 THEN gtis ELSE Append(gtis, <<t0, t1>>)

\* the stop taken at the last sample of the region
CondStepLastSample(time, idx, si, gtis) ==
    LET t0 == At(time, idx[1]) + si[1]
        t1 == At(time, idx[2] - 1) - si[2]
    IN  IF t1 - t0 < 0 THEN gtis ELSE Append(gtis, <<t0, t1>>)

CondStep(time, idx, si, gtis) ==
    LET t0 == At(time, idx[1]) + si[1]
        t1 == At(time, Min2(idx[2], Len(time) - 1)) - si[2]
    IN  IF t1 - t0 < 0 THEN gtis ELSE Append(gtis, <<t0, t1>>)

RECURSIVE CondLoop(_, _, _, _, _)
CondLoop(time, idxs, si, k, gtis) ==
    IF k > Len(idxs) THEN gtis
    ELSE CondLoop(time, idxs, si, k + 1, CondStep(time, idxs[k], si, gtis))

\* condition[0] of an empty array raises IndexError
mp_create_gti_from_condition(time, condition, safe_interval) ==
    IF Len(condition) = 0 THEN Raised("IndexError")
    ELSE Returned(CondLoop(time, mp_contiguous_regions(condition),
                           AsPair(safe_interval), 1, <<>>))

\* np.arange(start, stop, step) for a positive step
RECURSIVE NpArange(_, _, _)
NpArange(start, stop, step) ==
    IF start >= stop THEN <<>>
    ELSE <<start>> \o NpArange(start + step, stop, step)

SeqMin(s) == CHOOSE m \in {s[i] : i \in 1..Len(s)} : \A i \in 1..Len(s) : m <= s[i]

SeqMax(s) == CHOOSE m \in {s[i] : i \in 1..Len(s)} : \A i \in 1..Len(s) : m >= s[i]

\* the masks of all the lists, and-ed
RECURSIVE CrossMaskOr(_, _, _, _, _)
CrossMaskOr(times, gti_list, bin_time, k, mask0) ==
    IF k > Len(gti_list) THEN mask0
    ELSE LET mask == mp_create_gti_mask(times, gti_list[k], <<"pair", 0, bin_time>>, 0).mask
         IN  CrossMaskOr(times, gti_list, bin_time, k + 1,
                         [i \in 1..Len(times) |-> mask0[i] \/ mask[i]])

RECURSIVE CrossMask(_, _, _, _, _)
CrossMask(times, gti_list, bin_time, k, mask0) ==
    IF k > Len(gti_list) THEN mask0
    ELSE LET mask == mp_create_gti_mask(times, gti_list[k], <<"pair", 0, bin_time>>, 0).mask
         IN  CrossMask(times, gti_list, bin_time, k + 1,
                       [i \in 1..Len(times) |-> mask0[i] /\ mask[i]])

\* g[0][0] and g[-1][-1] of an empty list raise IndexError
mp_cross_gtis(gti_list, bin_time) ==
    IF Len(gti_list) = 1 THEN Returned(gti_list[1])
    ELSE IF \E k \in 1..Len(gti_list) : Len(gti_list[k]) = 0 THEN Raised("IndexError")
    ELSE LET start == SeqMin([k \in 1..Len(gti_list) |-> gti_list[k][1][1]])
             stop  == SeqMax([k \in 1..Len(gti_list) |->
                                 gti_list[k][Len(gti_list[k])][2]])
             times == NpArange(start, stop, bin_time)
             mask0 == mp_create_gti_mask(times, gti_list[1],
                                         <<"pair", 0, bin_time>>, 0).mask
             mask  == CrossMask(times, gti_list, bin_time, 2, mask0)
         IN  mp_create_gti_from_condition(times, mask, <<"scalar", 0>>)

(* ------------------------------ mp_fspec.py ---------------------------- *)
(* Fourier coefficients are kept exact.  With z = exp(-2 pi i / n), a       *)
(* coefficient is the tuple c of its integer weights on z^0 .. z^(n-1): it  *)
(* stands for c[1] + c[2] z + ... + c[n] z^(n-1).  A power is such a value  *)
(* over a denominator; a cross power is such a value over the square root   *)
(* of a radicand.                                                           *)
RECURSIVE SeqSum(_)
SeqSum(s) == IF Len(s) = 0 THEN 0 ELSE s[1] + SeqSum(Tail(s))

ZeroZ(n) == [m \in 1..n |-> 0]

ScaleZ(a, c) == [m \in 1..Len(c) |-> a * c[m]]

ConjZ(c) == [m \in 1..Len(c) |-> c[((Len(c) - (m - 1)) % Len(c)) + 1]]

MulZ(a, b) ==
    [m \in 1..Len(a) |->
        SeqSum([p \in 1..Len(a) |-> a[p] * b[((m - p) % Len(a)) + 1]])]

\* np.fft.fft: coefficient k is the sum of lc[j] z^(j k)
NpFft(lc) ==
    LET n == Len(lc)
    IN  [k \in 1..n |->
            [m \in 1..n |->
                SeqSum([j \in 1..n |->
                           IF ((j - 1) * (k - 1)) % n = m - 1 THEN lc[j] ELSE 0])]]

\* np.fft.fftfreq(n, d): <<numerator, denominator>>, zero, positive ascending,
\* then negative
NpFftFreq(n, d) ==
    [i \in 1..n |-> <<IF i - 1 <= (n - 1) \div 2 THEN i - 1 ELSE i - 1 - n, n * d>>]

\* a[good] for a boolean array good
RECURSIVE Select(_, _)
Select(a, good) ==
    IF Len(a) = 0 THEN <<>>
    ELSE IF good[1] THEN <<a[1]>> \o Select(Tail(a), Tail(good))
    ELSE Select(Tail(a), Tail(good))

\* what a spectrum call hands back, with the steps it went through
Outcome(raised, value, steps) == [raised |-> raised, value |-> value, steps |-> steps]

\* np.fft.fft of an empty array raises ValueError
mp_fft(lc, bintime) ==
    IF Len(lc) = 0 THEN Raised("ValueError")
    ELSE Returned([freqs |-> NpFftFreq(Len(lc), bintime), ft |-> NpFft(lc)])

LeahyPdsAlwaysDivide(lc, bintime) ==
    LET nph == SeqSum(lc)
        fft == mp_fft(lc, bintime)
    IN  IF fft.raised # "none" THEN Outcome(fft.raised, <<>>, <<"sum", "mp_fft">>)
        ELSE LET freqs == fft.value.freqs
                 ft    == fft.value.ft
                 pds   == [k \in 1..Len(ft) |->
                              [num |-> ScaleZ(2, MulZ(ConjZ(ft[k]), ft[k])),
                               den |-> nph]]
                 good  == [k \in 1..Len(freqs) |-> freqs[k][1] >= 0]
             IN  Outcome("none",
                         [freqs |-> Select(freqs, good), pds |-> Select(pds, good)],
                         <<"sum", "mp_fft", "normalise">>)

mp_leahy_pds(lc, bintime) ==
    LET nph == SeqSum(lc)
        fft == mp_fft(lc, bintime)
    IN  IF fft.raised # "none" THEN Outcome(fft.raised, <<>>, <<"sum", "mp_fft">>)
        ELSE LET freqs == fft.value.freqs
                 ft    == fft.value.ft
                 pds   == IF nph # 0
                          THEN [k \in 1..Len(ft) |->
                                   [num |-> ScaleZ(2, MulZ(ConjZ(ft[k]), ft[k])),
                                    den |-> nph]]
                          ELSE [k \in 1..Len(freqs) |->
                                   [num |-> ZeroZ(Len(freqs)), den |-> 1]]
                 good  == [k \in 1..Len(freqs) |-> freqs[k][1] >= 0]
             IN  Outcome("none",
                         [freqs |-> Select(freqs, good), pds |-> Select(pds, good)],
                         <<"sum", "mp_fft", "normalise">>)

\* the assertion placed after the transforms
LeahyCpdsAssertLast(lc1, lc2, bintime) ==
    LET fft1 == mp_fft(lc1, bintime)
        fft2 == mp_fft(lc2, bintime)
    IN  IF fft1.raised # "none"
        THEN Outcome(fft1.raised, <<>>, <<"sum", "sum", "mp_fft">>)
        ELSE IF fft2.raised # "none"
        THEN Outcome(fft2.raised, <<>>, <<"sum", "sum", "mp_fft", "mp_fft">>)
        ELSE IF Len(lc1) # Len(lc2)
        THEN Outcome("AssertionError", <<>>,
                     <<"sum", "sum", "mp_fft", "mp_fft", "assert">>)
        ELSE LET nph1  == SeqSum(lc1)
                 nph2  == SeqSum(lc2)
                 freqs == fft2.value.freqs
                 ft1   == fft1.value.ft
                 ft2   == fft2.value.ft
                 cpds  == IF nph1 * nph2 # 0
                          THEN [k \in 1..Len(ft1) |->
                                   [num |-> ScaleZ(2, MulZ(ConjZ(ft1[k]), ft2[k])),
                                    rad |-> nph1 * nph2]]
                          ELSE [k \in 1..Len(freqs) |->
                                   [num |-> ZeroZ(Len(freqs)), rad |-> 1]]
                 good  == [k \in 1..Len(freqs) |-> freqs[k][1] >= 0]
             IN  Outcome("none",
                         [freqs |-> Select(freqs, good), cpds |-> Select(cpds, good)],
                         <<"sum", "sum", "mp_fft", "mp_fft", "assert", "normalise">>)

\* nph = sqrt(nph1 * nph2) is zero iff the product is
mp_leahy_cpds(lc1, lc2, bintime) ==
    IF Len(lc1) # Len(lc2) THEN Outcome("AssertionError", <<>>, <<"assert">>)
    ELSE LET fft1 == mp_fft(lc1, bintime)
             fft2 == mp_fft(lc2, bintime)
         IN  IF fft1.raised # "none"
             THEN Outcome(fft1.raised, <<>>, <<"assert", "sum", "sum", "mp_fft">>)
             ELSE IF fft2.raised # "none"
             THEN Outcome(fft2.raised, <<>>,
                          <<"assert", "sum", "sum", "mp_fft", "mp_fft">>)
             ELSE LET nph1  == SeqSum(lc1)
                      nph2  == SeqSum(lc2)
                      freqs == fft2.value.freqs
                      ft1   == fft1.value.ft
                      ft2   == fft2.value.ft
                      cpds  == IF nph1 * nph2 # 0
                               THEN [k \in 1..Len(ft1) |->
                                        [num |-> ScaleZ(2, MulZ(ConjZ(ft1[k]), ft2[k])),
                                         rad |-> nph1 * nph2]]
                               ELSE [k \in 1..Len(freqs) |->
                                        [num |-> ZeroZ(Len(freqs)), rad |-> 1]]
                      good  == [k \in 1..Len(freqs) |-> freqs[k][1] >= 0]
                  IN  Outcome("none",
                              [freqs |-> Select(freqs, good),
                               cpds  |-> Select(cpds, good)],
                              <<"assert", "sum", "sum", "mp_fft", "mp_fft",
                                "normalise">>)

\* one pass of the loop over the GTIs
PlanStepToStop(g, fftlen, spectrum_start_times) ==
    IF g[2] - g[1] < fftlen THEN spectrum_start_times
    ELSE spectrum_start_times \o NpArange(g[1], g[2], fftlen)

PlanStep(g, fftlen, spectrum_start_times) ==
    IF g[2] - g[1] < fftlen THEN spectrum_start_times
    ELSE spectrum_start_times \o NpArange(g[1], g[2] - fftlen, fftlen)

RECURSIVE PlanLoop(_, _, _, _)
PlanLoop(gtis, fftlen, k, spectrum_start_times) ==
    IF k > Len(gtis) THEN spectrum_start_times
    ELSE PlanLoop(gtis, fftlen, k + 1, PlanStep(gtis[k], fftlen, spectrum_start_times))

mp_decide_spectrum_intervals(gtis, fftlen) == PlanLoop(gtis, fftlen, 1, <<>>)

\* the samples of the segment [t, t + fftlen)
SegmentMask(time, t, fftlen) ==
    [i \in 1..Len(time) |-> time[i] >= t /\ time[i] < t + fftlen]

\* "pds = 0" before the first segment
NoSum == [shape |-> -1, terms |-> <<>>]

\* "pds += p": the sum is kept as the list of its terms.  The first term
\* replaces the scalar 0; a later term must have the shape of the sum or
\* one element, which numpy broadcasts; any other shape raises ValueError
WelchAdd(acc, p) ==
    IF acc.shape = -1
    THEN [raised |-> "none", shape |-> Len(p), terms |-> <<p>>]
    ELSE IF Len(p) = acc.shape
    THEN [raised |-> "none", shape |-> acc.shape, terms |-> Append(acc.terms, p)]
    ELSE IF Len(p) = 1
    THEN [raised |-> "none", shape |-> acc.shape,
          terms |-> Append(acc.terms, [k \in 1..acc.shape |-> p[1]])]
    ELSE [raised |-> "ValueError", shape |-> acc.shape, terms |-> acc.terms]

RECURSIVE WelchPdsLoop(_, _, _, _, _, _, _, _)
WelchPdsLoop(time, lc, bintime, fftlen, start_times, k, acc, f) ==
    IF k > Len(start_times) THEN [raised |-> "none", acc |-> acc, f |-> f]
    ELSE LET good == SegmentMask(time, start_times[k], fftlen)
             l    == Select(lc, good)
             fp   == mp_leahy_pds(l, bintime)
         IN  IF fp.raised # "none"
             THEN [raised |-> fp.raised, acc |-> acc, f |-> f]
             ELSE LET sum == WelchAdd(acc, fp.value.pds)
                  IN  IF sum.raised # "none"
                      THEN [raised |-> sum.raised, acc |-> acc, f |-> fp.value.freqs]
                      ELSE WelchPdsLoop(time, lc, bintime, fftlen, start_times, k + 1,
                                        [shape |-> sum.shape, terms |-> sum.terms],
                                        fp.value.freqs)

\* the division carried out for any npds, as on numpy values
WelchResultUnchecked(r, npds) ==
    IF r.raised # "none" THEN Raised(r.raised)
    ELSE Returned([f    |-> r.f,
                   pds  |-> [sum |-> r.acc.terms, over |-> npds],
                   epds |-> [sum |-> r.acc.terms, over |-> npds, over_sqrt |-> npds],
                   npds |-> npds])

\* "pds /= npds" with pds = 0 and npds = 0 raises ZeroDivisionError; the
\* error is the mean over sqrt(npds)
WelchResult(r, npds) ==
    IF r.raised # "none" THEN Raised(r.raised)
    ELSE IF npds = 0 THEN Raised("ZeroDivisionError")
    ELSE Returned([f    |-> r.f,
                   pds  |-> [sum |-> r.acc.terms, over |-> npds],
                   epds |-> [sum |-> r.acc.terms, over |-> npds, over_sqrt |-> npds],
                   npds |-> npds])

mp_welch_pds(time, lc, bintime, fftlen, gti) ==
    LET start_times == mp_decide_spectrum_intervals(gti, fftlen)
        npds        == Len(start_times)
    IN  WelchResult(WelchPdsLoop(time, lc, bintime, fftlen, start_times, 1, NoSum, <<>>),
                    npds)

RECURSIVE WelchCpdsLoop(_, _, _, _, _, _, _, _, _)
WelchCpdsLoop(time, lc1, lc2, bintime, fftlen, start_times, k, acc, f) ==
    IF k > Len(start_times) THEN [raised |-> "none", acc |-> acc, f |-> f]
    ELSE LET good == SegmentMask(time, start_times[k], fftlen)
             l1   == Select(lc1, good)
             l2   == Select(lc2, good)
             fp   == mp_leahy_cpds(l1, l2, bintime)
         IN  IF fp.raised # "none"
             THEN [raised |-> fp.raised, acc |-> acc, f |-> f]
             ELSE LET sum == WelchAdd(acc, fp.value.cpds)
                  IN  IF sum.raised # "none"
                      THEN [raised |-> sum.raised, acc |-> acc, f |-> fp.value.freqs]
                      ELSE WelchCpdsLoop(time, lc1, lc2, bintime, fftlen, start_times,
                                         k + 1,
                                         [shape |-> sum.shape, terms |-> sum.terms],
                                         fp.value.freqs)

mp_welch_cpds(time, lc1, lc2, bintime, fftlen, gti) ==
    LET start_times == mp_decide_spectrum_intervals(gti, fftlen)
        npds        == Len(start_times)
    IN  WelchResult(WelchCpdsLoop(time, lc1, lc2, bintime, fftlen, start_times, 1,
                                  NoSum, <<>>),
                    npds)

(* ------------------------------ calls ---------------------------------- *)
\* a call that has not been carried out yet
Pending == [raised |-> "pending", value |-> <<>>]

\* no batch of files is being processed
NoBatch == [mode |-> "none", tasks |-> <<>>, outqueue |-> <<>>, fetched |-> 0,
            disk |-> {}]

\* no InteractivePhaseogram has been made
NoWidget == [made |-> FALSE]

InitMask ==
    /\ call = "mp_create_gti_mask"
    /\ \E time \in MaskTimeArrays, gtis \in GtiLists,
          si \in SafeIntervals, ml \in 0..MaxMargin :
          args = [time |-> time, gtis |-> gtis, safe_interval |-> si,
                  min_length |-> ml]
    /\ ret = Pending
    /\ batch = NoBatch
    /\ widget = NoWidget

CallCreateGtiMask ==
    /\ call = "mp_create_gti_mask" /\ ret = Pending
    /\ ret' = Returned(mp_create_gti_mask(args.time, args.gtis, args.safe_interval,
                                          args.min_length))
    /\ UNCHANGED <<call, args, batch, widget>>

NextMask == CallCreateGtiMask

SpecMask == InitMask /\ [][NextMask]_vars

InitCond ==
    /\ call = "mp_create_gti_from_condition"
    /\ \E time \in TimeArrays, si \in SafeIntervals :
       \E condition \in [1..Len(time) -> BOOLEAN] :
          args = [time |-> time, condition |-> condition, safe_interval |-> si]
    /\ ret = Pending
    /\ batch = NoBatch
    /\ widget = NoWidget

CallCreateGtiFromCondition ==
    /\ call = "mp_create_gti_from_condition" /\ ret = Pending
    /\ ret' = mp_create_gti_from_condition(args.time, args.condition,
                                           args.safe_interval)
    /\ UNCHANGED <<call, args, batch, widget>>

NextCond == CallCreateGtiFromCondition

SpecCond == InitCond /\ [][NextCond]_vars

\* one GTI list, or two
InitCross ==
    /\ call = "mp_cross_gtis"
    /\ \E n \in 1..2, bin_time \in 1..MaxBin :
       \E gti_list \in [1..n -> GtiLists] :
          args = [gti_list |-> gti_list, bin_time |-> bin_time]
    /\ ret = Pending
    /\ batch = NoBatch
    /\ widget = NoWidget

CallCrossGtis ==
    /\ call = "mp_cross_gtis" /\ ret = Pending
    /\ ret' = mp_cross_gtis(args.gti_list, args.bin_time)
    /\ UNCHANGED <<call, args, batch, widget>>

NextCross == CallCrossGtis

SpecCross == InitCross /\ [][NextCross]_vars

InitPlan ==
    /\ call = "mp_decide_spectrum_intervals"
    /\ \E gtis \in GtiLists, fftlen \in 1..MaxFft :
          args = [gtis |-> gtis, fftlen |-> fftlen]
    /\ ret = Pending
    /\ batch = NoBatch
    /\ widget = NoWidget

CallDecideSpectrumIntervals ==
    /\ call = "mp_decide_spectrum_intervals" /\ ret = Pending
    /\ ret' = Returned(mp_decide_spectrum_intervals(args.gtis, args.fftlen))
    /\ UNCHANGED <<call, args, batch, widget>>

NextPlan == CallDecideSpectrumIntervals

SpecPlan == InitPlan /\ [][NextPlan]_vars

\* light curves: counts per bin
LightCurves == UNION {[1..n -> 0..MaxCount] : n \in 0..MaxLen}

InitLeahy ==
    /\ ret = Pending
    /\ batch = NoBatch
    /\ widget = NoWidget
    /\ \/ /\ call = "mp_leahy_pds"
          /\ \E lc \in LightCurves, bintime \in 1..MaxBin :
                args = [lc |-> lc, bintime |-> bintime]
       \/ /\ call = "mp_leahy_cpds"
          /\ \E lc1 \in LightCurves, lc2 \in LightCurves, bintime \in 1..MaxBin :
                args = [lc1 |-> lc1, lc2 |-> lc2, bintime |-> bintime]

CallLeahyPds ==
    /\ call = "mp_leahy_pds" /\ ret = Pending
    /\ ret' = mp_leahy_pds(args.lc, args.bintime)
    /\ UNCHANGED <<call, args, batch, widget>>

CallLeahyCpds ==
    /\ call = "mp_leahy_cpds" /\ ret = Pending
    /\ ret' = mp_leahy_cpds(args.lc1, args.lc2, args.bintime)
    /\ UNCHANGED <<call, args, batch, widget>>

NextLeahy ==
    \/ CallLeahyPds
    \/ CallLeahyCpds

SpecLeahy == InitLeahy /\ [][NextLeahy]_vars

\* the bins of a light curve handed to the Welch routines, and its GTIs
WelchTimes == 0..MaxWT

WelchTimeArrays ==
    {s \in UNION {[1..n -> WelchTimes] : n \in 0..MaxLen} : IsAscending(s)}

WelchGtiLists ==
    {s \in UNION {[1..n -> {g \in WelchTimes \X WelchTimes : g[1] < g[2]}] :
                     n \in 0..MaxGti} : IsGtiList(s)}

\* the bin time of the light curves is the time unit; the second light curve
\* of a cross spectrum is flat
InitWelch ==
    /\ ret = Pending
    /\ batch = NoBatch
    /\ widget = NoWidget
    /\ \E time \in WelchTimeArrays, fftlen \in 1..MaxFft, gti \in WelchGtiLists :
       \E lc \in [1..Len(time) -> 0..MaxCount] :
          \/ /\ call = "mp_welch_pds"
             /\ args = [time |-> time, lc |-> lc, bintime |-> 1,
                        fftlen |-> fftlen, gti |-> gti]
          \/ /\ call = "mp_welch_cpds"
             /\ \E c \in 0..MaxCount :
                   args = [time |-> time, lc1 |-> lc,
                           lc2 |-> [i \in 1..Len(time) |-> c],
                           bintime |-> 1, fftlen |-> fftlen, gti |-> gti]

CallWelchPds ==
    /\ call = "mp_welch_pds" /\ ret = Pending
    /\ ret' = mp_welch_pds(args.time, args.lc, args.bintime, args.fftlen, args.gti)
    /\ UNCHANGED <<call, args, batch, widget>>

CallWelchCpds ==
    /\ call = "mp_welch_cpds" /\ ret = Pending
    /\ ret' = mp_welch_cpds(args.time, args.lc1, args.lc2, args.bintime, args.fftlen,
                            args.gti)
    /\ UNCHANGED <<call, args, batch, widget>>

NextWelch ==
    \/ CallWelchPds
    \/ CallWelchCpds

SpecWelch == InitWelch /\ [][NextWelch]_vars

(* ------------------------------ C2 ------------------------------------- *)
\* t lies in the half-open trimmed interval of a GTI that survives min_length
InTrimmed(t, gtis, si, min_length) ==
    \E k \in 1..Len(gtis) :
        /\ (gtis[k][2] - si[2]) - (gtis[k][1] + si[1]) > min_length
        /\ gtis[k][1] + si[1] <= t
        /\ t < gtis[k][2] - si[2]

\* C2: mp_create_gti_mask marks a time valid iff it lies in [start + m0,
\* stop - m1) of some GTI whose trimmed length exceeds min_length; a time on
\* a trimmed stop is excluded and an empty GTI list gives an all-false mask.
C2_MaskHalfOpen ==
    (call = "mp_create_gti_mask" /\ ret.raised = "none") =>
        \A i \in 1..Len(args.time) :
            ret.value.mask[i] <=>
                InTrimmed(args.time[i], args.gtis, AsPair(args.safe_interval),
                          args.min_length)

\* a sample on the trimmed stop of a surviving GTI is left out, another sample
\* is marked, and a GTI is dropped for being too short
C2_Witness ==
    /\ call = "mp_create_gti_mask"
    /\ ret.raised = "none"
    /\ LET si == AsPair(args.safe_interval)
       IN  /\ si[2] > 0
           /\ \E i \in 1..Len(args.time), k \in 1..Len(args.gtis) :
                 /\ (args.gtis[k][2] - si[2]) - (args.gtis[k][1] + si[1])
                        > args.min_length
                 /\ args.time[i] = args.gtis[k][2] - si[2]
                 /\ ~ret.value.mask[i]
           /\ \E j \in 1..Len(args.time) : ret.value.mask[j]
           /\ Len(ret.value.newgtis) < Len(args.gtis)

(* ------------------------------ C3 ------------------------------------- *)
DefaultSafeInterval == <<"scalar", 0>>

\* C3: mask(from_condition(times, cond)) with default margins reproduces cond
\* at every sample, a run ending at the last sample included.
C3_RoundTrip ==
    (/\ call = "mp_create_gti_from_condition"
     /\ args.safe_interval = DefaultSafeInterval
     /\ ret.raised = "none") =>
        mp_create_gti_mask(args.time, ret.value, DefaultSafeInterval, 0).mask
            = args.condition

(* ------------------------------ C4 ------------------------------------- *)
\* the maximal runs of True samples, by their one-based first sample
IsRunStart(condition, i) == condition[i] /\ (i = 1 \/ ~condition[i - 1])

\* zero-based index of the run's end sample: the first sample after the run,
\* or the last sample of the array when the run reaches the end of the array
RunEnd(condition, i) ==
    LET after == {j \in (i + 1)..Len(condition) : ~condition[j]}
    IN  IF after = {} THEN Len(condition) - 1
        ELSE (CHOOSE j \in after : \A l \in after : j <= l) - 1

RunStarts(condition) == {i \in 1..Len(condition) : IsRunStart(condition, i)}

Widened(time, condition, si, i) ==
    <<time[i] - si[1], At(time, RunEnd(condition, i)) + si[2]>>

Narrowed(time, condition, si, i) ==
    <<time[i] + si[1], At(time, RunEnd(condition, i)) - si[2]>>

\* C4 as claimed: every returned interval is a run widened outward.
C4_WidenedOutward ==
    (call = "mp_create_gti_from_condition" /\ ret.raised = "none") =>
        \A k \in 1..Len(ret.value) :
            \E i \in RunStarts(args.condition) :
                ret.value[k] = Widened(args.time, args.condition,
                                       AsPair(args.safe_interval), i)

\* the runs whose narrowed interval has stop - start >= 0, in array order
RECURSIVE KeptNarrowed(_, _, _, _)
KeptNarrowed(time, condition, si, i) ==
    IF i > Len(condition) THEN <<>>
    ELSE LET g == Narrowed(time, condition, si, i)
         IN  IF IsRunStart(condition, i) /\ g[2] - g[1] >= 0
             THEN <<g>> \o KeptNarrowed(time, condition, si, i + 1)
             ELSE KeptNarrowed(time, condition, si, i + 1)

\* C4 (amended): each maximal run becomes an interval narrowed inward, from
\* the first sample time plus safe_interval[0] to the end sample time minus
\* safe_interval[1]; the runs left with stop - start < 0 are dropped.
C4_NarrowedInward ==
    (call = "mp_create_gti_from_condition" /\ ret.raised = "none") =>
        ret.value = KeptNarrowed(args.time, args.condition,
                                 AsPair(args.safe_interval), 1)

\* two runs, both margins positive, one run kept and one dropped
C4_Witness ==
    /\ call = "mp_create_gti_from_condition"
    /\ ret.raised = "none"
    /\ AsPair(args.safe_interval)[1] > 0
    /\ AsPair(args.safe_interval)[2] > 0
    /\ Cardinality(RunStarts(args.condition)) = 2
    /\ Len(ret.value) = 1

(* ------------------------------ C5 ------------------------------------- *)
\* C5: no returned interval has stop <= start.
C5_NoEmptyInterval ==
    (call = "mp_create_gti_from_condition" /\ ret.raised = "none") =>
        \A k \in 1..Len(ret.value) : ret.value[k][1] < ret.value[k][2]

(* ------------------------------ C1 ------------------------------------- *)
\* the mask of a GTI list at one time, default margins
MaskAt(t, gtis) == mp_create_gti_mask(<<t>>, gtis, DefaultSafeInterval, 0).mask[1]

Max2(a, b) == IF a >= b THEN a ELSE b

\* t is inside an interval of A and one of B, a grid step or more after the
\* later start and more than a grid step before the earlier stop
Interior(t, A, B, bin_time) ==
    \E a \in 1..Len(A), b \in 1..Len(B) :
        /\ Max2(A[a][1], B[b][1]) + bin_time <= t
        /\ t < Min2(A[a][2], B[b][2]) - bin_time

FittingStarts(g, fftlen) ==
    [k \in 1..((g[2] - g[1]) \div fftlen) |-> g[1] + (k - 1) * fftlen]

RECURSIVE AllFittingStarts(_, _, _)
AllFittingStarts(gtis, fftlen, k) ==
    IF k > Len(gtis) THEN <<>>
    ELSE FittingStarts(gtis[k], fftlen) \o AllFittingStarts(gtis, fftlen, k + 1)

\* C6: mp_decide_spectrum_intervals emits, GTI by GTI, exactly the start times
\* g.start + k * fftlen with start + fftlen <= g.stop, so that a GTI of length
\* k * fftlen yields k start times.
C6_AllFittingStarts ==
    (call = "mp_decide_spectrum_intervals" /\ ret.raised = "none") =>
        ret.value = AllFittingStarts(args.gtis, args.fftlen, 1)

(* ------------------------------ C7 ------------------------------------- *)
\* the GTIs that hold the whole segment [s, s + fftlen)
HoldingGtis(gtis, s, fftlen) ==
    {k \in 1..Len(gtis) : gtis[k][1] <= s /\ s + fftlen <= gtis[k][2]}

\* C7: the planned segments are ascending and pairwise disjoint, follow the
\* order of the GTIs, and each lies entirely inside one GTI.
C7_SegmentsInsideGtis ==
    (call = "mp_decide_spectrum_intervals" /\ ret.raised = "none") =>
        LET starts == ret.value
        IN  /\ \A i \in 1..Len(starts) :
                   HoldingGtis(args.gtis, starts[i], args.fftlen) # {}
            /\ \A i \in 1..(Len(starts) - 1) :
                   /\ starts[i] + args.fftlen <= starts[i + 1]
                   /\ \A a \in HoldingGtis(args.gtis, starts[i], args.fftlen),
                         b \in HoldingGtis(args.gtis, starts[i + 1], args.fftlen) :
                         a <= b

\* two GTIs separated by a gap give segments, one of them more than one
C7_Witness ==
    /\ call = "mp_decide_spectrum_intervals"
    /\ ret.raised = "none"
    /\ Len(ret.value) >= 3
    /\ Len(args.gtis) = 2
    /\ args.gtis[1][2] < args.gtis[2][1]
    /\ Cardinality(UNION {HoldingGtis(args.gtis, ret.value[i], args.fftlen) :
                             i \in 1..Len(ret.value)}) = 2

(* ------------------------------ C8 ------------------------------------- *)
\* how many samples of the time array each planned segment holds
SegmentSizes(time, gti, fftlen) ==
    LET start_times == mp_decide_spectrum_intervals(gti, fftlen)
    IN  [k \in 1..Len(start_times) |->
            Cardinality({i \in 1..Len(time) :
                            SegmentMask(time, start_times[k], fftlen)[i]})]

\* C8: a planned segment without samples is skipped: the call raises nothing
\* and averages the segments that have samples.  (The segments that have
\* samples are taken to be complete, so that their spectra can be added.)
C8_EmptySegmentSkipped ==
    (/\ call \in {"mp_welch_pds", "mp_welch_cpds"}
     /\ ret # Pending
     /\ LET sizes == SegmentSizes(args.time, args.gti, args.fftlen)
        IN  /\ \E k \in 1..Len(sizes) : sizes[k] = 0
            /\ \E k \in 1..Len(sizes) : sizes[k] # 0
            /\ \A k \in 1..Len(sizes) : sizes[k] \in {0, args.fftlen}) =>
        /\ ret.raised = "none"
        /\ Len(ret.value.pds.sum) =
               Cardinality({k \in 1..Len(SegmentSizes(args.time, args.gti, args.fftlen)) :
                               SegmentSizes(args.time, args.gti, args.fftlen)[k] # 0})

(* ------------------------------ C9 ------------------------------------- *)
\* a power that is a plain zero
IsZeroPower(v) == v.den # 0 /\ \A m \in 1..Len(v.num) : v.num[m] = 0

\* C9: mp_leahy_pds of a non-empty light curve without counts raises nothing
\* and returns a zero in every bin, on the non-negative frequencies only, as
\* many powers as frequencies.
C9_ZeroCountsZeroSpectrum ==
    (/\ call = "mp_leahy_pds"
     /\ ret # Pending
     /\ Len(args.lc) > 0
     /\ SeqSum(args.lc) = 0) =>
        /\ ret.raised = "none"
        /\ Len(ret.value.pds) = Len(ret.value.freqs)
        /\ Len(ret.value.freqs) = ((Len(args.lc) - 1) \div 2) + 1
        /\ \A k \in 1..Len(ret.value.freqs) : ret.value.freqs[k][1] >= 0
        /\ \A k \in 1..Len(ret.value.pds) : IsZeroPower(ret.value.pds[k])

\* a light curve without counts, long enough to have a negative frequency
C9_Witness ==
    /\ call = "mp_leahy_pds"
    /\ ret # Pending
    /\ Len(args.lc) >= 3
    /\ SeqSum(args.lc) = 0
    /\ ret.raised = "none"
    /\ Len(ret.value.pds) < Len(args.lc)

(* ------------------------------ C10 ------------------------------------ *)
\* C10: mp_leahy_cpds of two light curves of different length fails on its
\* assertion, before any transform or normalisation, and returns nothing.
C10_UnequalLengthsFail ==
    (/\ call = "mp_leahy_cpds"
     /\ ret # Pending
     /\ Len(args.lc1) # Len(args.lc2)) =>
        /\ ret.raised = "AssertionError"
        /\ ret.value = <<>>
        /\ \A i \in 1..Len(ret.steps) : ret.steps[i] \notin {"mp_fft", "normalise"}

\* two non-empty light curves with counts, of different length
C10_Witness ==
    /\ call = "mp_leahy_cpds"
    /\ ret # Pending
    /\ Len(args.lc1) # Len(args.lc2)
    /\ SeqSum(args.lc1) > 0
    /\ SeqSum(args.lc2) > 0
    /\ ret.raised = "AssertionError"

(* ======================================================================= *)
(* mp_fspec.py: rms_normalize_pds                                          *)
(* ======================================================================= *)
\* largest count rate handed to rms_normalize_pds
MaxRate == 2
\* largest power and largest error of a spectrum handed to rms_normalize_pds
MaxPower == 1
\* most bins of a spectrum handed to rms_normalize_pds
MaxSpecLen == 2

\* exact fractions <<numerator, denominator>>, denominator > 0, in lowest
\* terms
RECURSIVE Gcd(_, _)
Gcd(a, b) == IF b = 0 THEN a ELSE Gcd(b, a % b)

Abs(a) == IF a < 0 THEN -a ELSE a

Frac(n, d) ==
    LET s == IF d < 0 THEN -1 ELSE 1
        g == Gcd(Abs(n), Abs(d))
    IN  <<(s * n) \div g, (s * d) \div g>>

\* a number is <<type, value>>: a Python int, a Python float or a numpy
\* scalar; back_ctrate may also be None
None == <<"NoneType">>

NumericTypes == {"int", "float", "numpy.float64"}

IsNumpy(x) == x[1] = "numpy.float64"

\* the floating-point values that are not fractions, and the outcome of a
\* division that raised
Inf == <<"inf">>

NaN == <<"nan">>

ZeroDivisionError == <<"ZeroDivisionError">>

IsFinite(x) == Len(x) = 2

\* a / b of two numbers under "from __future__ import division": Python
\* numbers raise on a zero divisor, a numpy operand makes the division a
\* numpy one, which warns and gives nan (0 / 0) or inf
TrueDivide(num, den, numpy) ==
    IF den # 0 THEN Frac(num, den)
    ELSE IF ~numpy THEN ZeroDivisionError
    ELSE IF num = 0 THEN NaN
    ELSE Inf

\* array * factor of a numpy array of finite values
Times1(p, factor) ==
    IF factor = NaN THEN NaN
    ELSE IF factor = Inf THEN (IF p = 0 THEN NaN ELSE Inf)
    ELSE Frac(p * factor[1], factor[2])

ArrayTimes(arr, factor) == [i \in 1..Len(arr) |-> Times1(arr[i], factor)]

rms_normalize_pds(pds, pds_err, source_ctrate, back_ctrate) ==
    LET back   == IF back_ctrate = None THEN <<"int", 0>> ELSE back_ctrate
        factor == TrueDivide(source_ctrate[2] + back[2],
                             source_ctrate[2] * source_ctrate[2],
                             IsNumpy(source_ctrate) \/ IsNumpy(back))
    IN  IF factor = ZeroDivisionError THEN Raised("ZeroDivisionError")
        ELSE Returned(<<ArrayTimes(pds, factor), ArrayTimes(pds_err, factor)>>)

(* ------------------------------ the call ------------------------------- *)
Rates == NumericTypes \X (0..MaxRate)

Spectra == UNION {[1..n -> 0..MaxPower] : n \in 1..MaxSpecLen}

InitRms ==
    /\ call = "rms_normalize_pds"
    /\ \E pds \in Spectra, source_ctrate \in Rates,
          back_ctrate \in Rates \cup {None} :
          \E pds_err \in [1..Len(pds) -> 0..MaxPower] :
             args = [pds |-> pds, pds_err |-> pds_err,
                     source_ctrate |-> source_ctrate,
                     back_ctrate |-> back_ctrate]
    /\ ret = Pending
    /\ batch = NoBatch
    /\ widget = NoWidget

CallRmsNormalizePds ==
    /\ call = "rms_normalize_pds" /\ ret = Pending
    /\ ret' = rms_normalize_pds(args.pds, args.pds_err, args.source_ctrate,
                                args.back_ctrate)
    /\ UNCHANGED <<call, args, batch, widget>>

NextRms == CallRmsNormalizePds

SpecRms == InitRms /\ [][NextRms]_vars

(* ------------------------------ C11 ------------------------------------ *)
RmsFactor(source_ctrate, back_ctrate) ==
    Frac(source_ctrate[2] + (IF back_ctrate = None THEN 0 ELSE back_ctrate[2]),
         source_ctrate[2] * source_ctrate[2])

\* C11: rms_normalize_pds raises whenever source_ctrate is zero, whatever the
\* numeric type of the argument, and never returns an infinite or NaN power
\* or error; for a non-zero source_ctrate both arrays are multiplied by
\* (source_ctrate + back_ctrate) / source_ctrate^2, back_ctrate None being 0.
C11_ZeroRateFails ==
    (call = "rms_normalize_pds" /\ ret # Pending) =>
        /\ args.source_ctrate[2] = 0 => ret.raised = "ZeroDivisionError"
        /\ ret.raised = "none" =>
              /\ \A k \in 1..2 : \A i \in 1..Len(ret.value[k]) :
                    IsFinite(ret.value[k][i])
              /\ args.source_ctrate[2] # 0
              /\ \A i \in 1..Len(args.pds) :
                    LET f == RmsFactor(args.source_ctrate, args.back_ctrate)
                    IN  /\ ret.value[1][i] = Frac(args.pds[i] * f[1], f[2])
                        /\ ret.value[2][i] = Frac(args.pds_err[i] * f[1], f[2])

(* ======================================================================= *)
(* maltpynt/read_events.py: treat_event_file                               *)
(* ======================================================================= *)
\* times of the event files are the even seconds 0, 2, ..., 2 * MaxTick
MaxTick == 4
\* most events in one event file
MaxEv == 2
\* most GTIs in one event file
MaxFileGti == 2

\* mp_root(filename) + '_ev' + MP_FILE_EXTENSION
Outfile(name) == <<name, "_ev">>

\* outfile.replace(MP_FILE_EXTENSION, '') + '_' + ig + MP_FILE_EXTENSION
OutfileLocal(name, ig) == <<name, "_ev", ig>>

\* the columns of the event table are kept by row: Column(c, n) is column c
\* of an n-row table, its i-th value standing for "c of row i"
Column(c, n) == [i \in 1..n |-> <<c, i>>]

\* np.array(additional['PCUID'], dtype=np.byte)
AsByte(col) == [i \in 1..Len(col) |-> <<"byte">> \o col[i]]

\* the dictionary built at lines 197-207
OutDict(file) ==
    LET n   == Len(file.events)
        out == [time |-> file.events, GTI |-> file.gtis,
                PI |-> Column("PI", n), MJDref |-> "MJDREF",
                Tstart |-> "TSTART", Tstop |-> "TSTOP", Instr |-> file.instr]
    IN  IF file.instr = "PCA"
        THEN [k \in DOMAIN out \cup {"PCU"} |->
                 IF k = "PCU" THEN AsByte(Column("PCUID", n)) ELSE out[k]]
        ELSE out

\* np.logical_and(events >= g[0], events < g[1])
GoodEvents(events, g) ==
    [i \in 1..Len(events) |-> events[i] >= g[1] /\ events[i] < g[2]]

\* out.copy() with the keys the loop body replaces (lines 223-232)
OutLocal(out, g, good) ==
    [k \in DOMAIN out |->
        CASE k = "time"   -> Select(out.time, good)
          [] k = "Tstart" -> g[1]
          [] k = "Tstop"  -> g[2]
          [] k = "PI"     -> Select(out.PI, good)
          [] k = "GTI"    -> <<g>>
          [] OTHER        -> out[k]]

NoclobberIgnored(noclobber, path, present) == FALSE

\* "noclobber and os.path.exists(path)" (lines 180 and 219)
NoclobberHit(noclobber, path, present) == noclobber /\ path \in present

\* the loop over the GTIs (lines 210-233), ig counting from 0; saves holds
\* the save_events calls made so far
RECURSIVE TreatLoop(_, _, _, _, _, _)
TreatLoop(file, out, noclobber, existing, ig, saves) ==
    IF ig >= Len(file.gtis) THEN Outcome("none", None, saves)
    ELSE
        LET g             == file.gtis[ig + 1]
            length        == g[2] - g[1]
            outfile_local == OutfileLocal(file.name, ig)
            good          == GoodEvents(file.events, g)
            written       == {saves[i].path : i \in 1..Len(saves)}
        IN  IF length < 4
            THEN TreatLoop(file, out, noclobber, existing, ig + 1, saves)
            ELSE IF NoclobberHit(noclobber, outfile_local, existing \cup written)
            THEN Outcome("none", None, saves)
            ELSE IF \A i \in 1..Len(good) : ~good[i]
            THEN TreatLoop(file, out, noclobber, existing, ig + 1, saves)
            ELSE TreatLoop(file, out, noclobber, existing, ig + 1,
                           Append(saves, [path |-> outfile_local,
                                          data |-> OutLocal(out, g, good)]))

\* existing: the paths os.path.exists answers True for when the call starts
treat_event_file(file, noclobber, gti_split, min_length, existing) ==
    IF NoclobberHit(noclobber, Outfile(file.name), existing) /\ ~gti_split
    THEN Outcome("none", None, <<>>)
    ELSE IF ~file.readable
    THEN Outcome("IOError", <<>>, <<>>)
    ELSE IF gti_split
    THEN TreatLoop(file, OutDict(file), noclobber, existing, 0, <<>>)
    ELSE Outcome("none", None,
                 <<[path |-> Outfile(file.name), data |-> OutDict(file)]>>)

(* ------------------------------ the call ------------------------------- *)
FileTimes == {2 * k : k \in 0..MaxTick}

FileIntervals == {g \in FileTimes \X FileTimes : g[1] < g[2]}

FileGtiLists ==
    {s \in UNION {[1..n -> FileIntervals] : n \in 0..MaxFileGti} : IsGtiList(s)}

EventLists ==
    {s \in UNION {[1..n -> FileTimes] : n \in 0..MaxEv} : IsAscending(s)}

\* a file that cannot be opened as an event file
Unreadable(name) ==
    [name |-> name, readable |-> FALSE, instr |-> "", events |-> <<>>,
     gtis |-> <<>>]

OutputPaths(name) ==
    {Outfile(name)} \cup {OutfileLocal(name, ig) : ig \in 0..(MaxFileGti - 1)}

InitTreat ==
    /\ call = "treat_event_file"
    /\ \E noclobber \in BOOLEAN, gti_split \in BOOLEAN, min_length \in {0, 4},
          existing \in SUBSET OutputPaths("A") :
          \/ \E instr \in {"PCA", "NuSTAR"}, events \in EventLists,
                gtis \in FileGtiLists :
                args = [file |-> [name |-> "A", readable |-> TRUE,
                                  instr |-> instr, events |-> events,
                                  gtis |-> gtis],
                        noclobber |-> noclobber, gti_split |-> gti_split,
                        min_length |-> min_length, existing |-> existing]
          \/ args = [file |-> Unreadable("A"),
                     noclobber |-> noclobber, gti_split |-> gti_split,
                     min_length |-> min_length, existing |-> existing]
    /\ ret = Pending
    /\ batch = NoBatch
    /\ widget = NoWidget

CallTreatEventFile ==
    /\ call = "treat_event_file" /\ ret = Pending
    /\ ret' = treat_event_file(args.file, args.noclobber, args.gti_split,
                               args.min_length, args.existing)
    /\ UNCHANGED <<call, args, batch, widget>>

NextTreat == CallTreatEventFile

SpecTreat == InitTreat /\ [][NextTreat]_vars

(* ------------------------------ C18 ------------------------------------ *)
TreatReturned == call = "treat_event_file" /\ ret # Pending

SavedPaths(n) == {ret.steps[i].path : i \in 1..n}

\* C18: with noclobber, treat_event_file never hands save_events a path that
\* exists: neither one that existed when the call started nor one the call
\* itself has written, in whole-file mode and in gti_split mode.
C18_NoclobberNeverOverwrites ==
    (TreatReturned /\ args.noclobber) =>
        \A i \in 1..Len(ret.steps) :
            ret.steps[i].path \notin args.existing \cup SavedPaths(i - 1)

\* gti_split with noclobber: the chunk of the first GTI is written, the path
\* of the second GTI's chunk exists and the second GTI would give a chunk
C18_Witness ==
    /\ TreatReturned
    /\ args.noclobber /\ args.gti_split
    /\ Len(ret.steps) = 1
    /\ ret.steps[1].path = OutfileLocal("A", 0)
    /\ OutfileLocal("A", 1) \in args.existing
    /\ Len(args.file.gtis) = 2
    /\ args.file.gtis[2][2] - args.file.gtis[2][1] >= 4
    /\ \E i \in 1..Len(args.file.events) :
          GoodEvents(args.file.events, args.file.gtis[2])[i]

(* ------------------------------ C19 ------------------------------------ *)
GtiLength(g) == g[2] - g[1]

HasEvents(file, g) ==
    \E i \in 1..Len(file.events) : GoodEvents(file.events, g)[i]

\* C19: in gti_split mode the GTIs skipped for their length are those
\* shorter than the caller's min_length: without noclobber, the chunk of a
\* GTI that holds events is written iff the GTI's length is at least
\* min_length, so nothing is skipped for its length when min_length is 0.
C19_MinLengthHonoured ==
    (/\ TreatReturned
     /\ args.gti_split /\ ~args.noclobber /\ args.file.readable) =>
        \A ig \in 0..(Len(args.file.gtis) - 1) :
            LET g == args.file.gtis[ig + 1]
            IN  HasEvents(args.file, g) =>
                   (OutfileLocal(args.file.name, ig) \in SavedPaths(Len(ret.steps))
                       <=> GtiLength(g) >= args.min_length)

(* ------------------------------ C20 ------------------------------------ *)
\* the rows of an n-row table that lie in g
RowsIn(events, g) == Select([i \in 1..Len(events) |-> i], GoodEvents(events, g))

\* C20: every chunk written in gti_split mode describes one GTI g of the
\* file: GTI is [g], Tstart and Tstop are g's bounds, time holds the events
\* with g[0] <= t < g[1], and PI (and PCU, when stored) hold the values of
\* those same rows, so that all per-event arrays have one length.
C20_ChunkIsOneGti ==
    (TreatReturned /\ args.gti_split) =>
        \A i \in 1..Len(ret.steps) :
            LET data == ret.steps[i].data
                ig   == ret.steps[i].path[3]
                g    == args.file.gtis[ig + 1]
                rows == RowsIn(args.file.events, g)
            IN  /\ data.GTI = <<g>>
                /\ data.Tstart = g[1] /\ data.Tstop = g[2]
                /\ data.time = [k \in 1..Len(rows) |-> args.file.events[rows[k]]]
                /\ data.PI = [k \in 1..Len(rows) |-> <<"PI", rows[k]>>]
                /\ "PCU" \in DOMAIN data =>
                      /\ data.PCU = [k \in 1..Len(rows) |->
                                        <<"byte", "PCUID", rows[k]>>]
                      /\ Len(data.PCU) = Len(data.time)

(* ======================================================================= *)
(* maltpynt/read_events.py: main                                           *)
(* ======================================================================= *)
\* most input files on one command line
MaxFiles == 3
\* largest --nproc
MaxProc == 2

\* batch.mode is "sequential" in the os.name == 'nt' branch; in the other
\* branch it is "open" while main iterates over the results, "closed" after
\* pool.close(), "abandoned" once main has left the loop on an exception
\* (the pool of daemon workers is never closed) and "terminated" when the
\* abandoned pool is gone with the process or the pool object.
\* batch.tasks[i] is "queued", "running", "done" or "failed"; batch.outqueue
\* lists the tasks in the order their results came back; main has taken the
\* first batch.fetched of them; batch.disk holds the paths written.
Running(b) == {i \in 1..Len(b.tasks) : b.tasks[i] = "running"}

Queued(b) == {i \in 1..Len(b.tasks) : b.tasks[i] = "queued"}

FirstQueued(b) == CHOOSE i \in Queued(b) : \A j \in Queued(b) : i <= j

\* _wrap_fun(a) for the i-th entry of arglist, on the files written so far
WrapFun(i, disk) ==
    treat_event_file(args.files[i], args.noclobber, args.gti_split, 4, disk)

\* the task's status after the call, and the files after its save_events
TaskDone(b, i, outcome) ==
    [b EXCEPT !.tasks[i] = IF outcome.raised = "none" THEN "done" ELSE "failed",
              !.disk = @ \cup {outcome.steps[k].path :
                                  k \in 1..Len(outcome.steps)}]

\* lines 282-288: arglist has one entry per file; the pool gets them all
MainStart ==
    /\ call = "read_events.main" /\ ret = Pending /\ batch.mode = "none"
    /\ IF args.os_name = "nt"
       THEN /\ batch' = [batch EXCEPT !.mode = "sequential",
                            !.tasks = [i \in 1..Len(args.files) |-> "queued"]]
            /\ UNCHANGED ret
       ELSE IF args.nproc < 1
       THEN /\ ret' = Raised("ValueError")
            /\ UNCHANGED batch
       ELSE /\ batch' = [batch EXCEPT !.mode = "open",
                            !.tasks = [i \in 1..Len(args.files) |-> "queued"]]
            /\ UNCHANGED ret
    /\ UNCHANGED <<call, args, widget>>

\* line 286: the next call of the list comprehension; an exception leaves
\* the comprehension and main
SeqWrapFun ==
    /\ call = "read_events.main" /\ ret = Pending /\ batch.mode = "sequential"
    /\ Queued(batch) # {}
    /\ LET i       == FirstQueued(batch)
           outcome == WrapFun(i, batch.disk)
       IN  /\ batch' = TaskDone(batch, i, outcome)
           /\ ret' = IF outcome.raised # "none" THEN Raised(outcome.raised)
                     ELSE IF i = Len(args.files) THEN Returned(None)
                     ELSE ret
    /\ UNCHANGED <<call, args, widget>>

\* a free worker of the pool takes the next task of the task queue
WorkerStart ==
    /\ call = "read_events.main" /\ batch.mode \in {"open", "abandoned"}
    /\ Queued(batch) # {}
    /\ Cardinality(Running(batch)) < args.nproc
    /\ batch' = [batch EXCEPT !.tasks[FirstQueued(batch)] = "running"]
    /\ UNCHANGED <<call, args, ret, widget>>

\* a worker ends its task: the result, or the exception, goes to the result
\* queue
WorkerFinish ==
    /\ call = "read_events.main" /\ batch.mode \in {"open", "abandoned"}
    /\ \E i \in Running(batch) :
          batch' = [TaskDone(batch, i, WrapFun(i, batch.disk))
                       EXCEPT !.outqueue = Append(@, i)]
    /\ UNCHANGED <<call, args, ret, widget>>

MainFetchesFirst(b, n) == b.fetched >= 1

\* the iterator of imap_unordered is exhausted: every result was taken
AllFetched(b, n) == b.fetched = n

\* lines 289-290: one iteration of the loop takes the next result that came
\* back; a task's exception is raised again here, in main
MainNext ==
    /\ call = "read_events.main" /\ ret = Pending /\ batch.mode = "open"
    /\ batch.fetched < Len(batch.outqueue)
    /\ LET i == batch.outqueue[batch.fetched + 1]
       IN  IF batch.tasks[i] = "failed"
           THEN /\ ret' = Raised("IOError")
                /\ batch' = [batch EXCEPT !.fetched = @ + 1,
                                          !.mode = "abandoned"]
           ELSE /\ batch' = [batch EXCEPT !.fetched = @ + 1]
                /\ UNCHANGED ret
    /\ UNCHANGED <<call, args, widget>>

\* line 291: the loop is over, pool.close(), main returns
MainClose ==
    /\ call = "read_events.main" /\ ret = Pending /\ batch.mode = "open"
    /\ AllFetched(batch, Len(args.files))
    /\ batch' = [batch EXCEPT !.mode = "closed"]
    /\ ret' = Returned(None)
    /\ UNCHANGED <<call, args, widget>>

\* the abandoned pool is terminated, with the tasks it still holds
PoolTerminate ==
    /\ call = "read_events.main" /\ batch.mode = "abandoned"
    /\ batch' = [batch EXCEPT !.mode = "terminated"]
    /\ UNCHANGED <<call, args, ret, widget>>

\* an input file that is read without error: one GTI of 4 s, one event
GoodFile(name) ==
    [name |-> name, readable |-> TRUE, instr |-> "NuSTAR", events |-> <<0>>,
     gtis |-> <<<<0, 4>>>>]

FileNames == <<"A", "B", "C", "D">>

FileBatches ==
    UNION {{[i \in 1..n |-> IF i \in bad THEN Unreadable(FileNames[i])
                            ELSE GoodFile(FileNames[i])] : bad \in SUBSET (1..n)}
              : n \in 1..MaxFiles}

InitMain ==
    /\ call = "read_events.main"
    /\ \E files \in FileBatches, nproc \in 0..MaxProc,
          os_name \in {"nt", "posix"}, noclobber \in BOOLEAN,
          gti_split \in BOOLEAN :
          args = [files |-> files, nproc |-> nproc, os_name |-> os_name,
                  noclobber |-> noclobber, gti_split |-> gti_split]
    /\ ret = Pending
    /\ batch = NoBatch
    /\ widget = NoWidget

NextMain ==
    \/ MainStart
    \/ SeqWrapFun
    \/ WorkerStart
    \/ WorkerFinish
    \/ MainNext
    \/ MainClose
    \/ PoolTerminate

SpecMain == InitMain /\ [][NextMain]_vars

(* ------------------------------ C12 ------------------------------------ *)
\* the output of file i is among the files written
OutputWritten(i) ==
    (IF args.gti_split THEN OutfileLocal(args.files[i].name, 0)
     ELSE Outfile(args.files[i].name)) \in batch.disk

\* C12: main hands out one treat_event_file task per input file, at most
\* --nproc of them run at a time, and main has returned only if every file
\* was processed to completion, in whatever order the tasks ended.
C12_ReturnsAfterAllProcessed ==
    call = "read_events.main" =>
        /\ batch.mode # "none" => Len(batch.tasks) = Len(args.files)
        /\ Running(batch) # {} => Cardinality(Running(batch)) <= args.nproc
        /\ ret = Returned(None) =>
              \A i \in 1..Len(args.files) :
                  batch.tasks[i] = "done" /\ OutputWritten(i)

\* main has returned from the pool branch, and the first result that came
\* back was not the first file's
C12_Witness ==
    /\ call = "read_events.main"
    /\ args.os_name = "posix"
    /\ ret = Returned(None)
    /\ Len(args.files) >= 2
    /\ batch.outqueue[1] # 1

(* ------------------------------ C13 ------------------------------------ *)
\* main is over and no worker will take or end a task any more
BatchOver ==
    /\ call = "read_events.main"
    /\ ret # Pending
    /\ batch.mode \in {"sequential", "closed", "terminated"}

\* C13: when treat_event_file has raised for a file of the batch, every
\* other file of the batch is still processed to completion, in the pool
\* branch and in the sequential branch: once the batch is over, every task
\* whose file can be read is done.
C13_FailureIsolated ==
    (BatchOver /\ \E i \in 1..Len(batch.tasks) : batch.tasks[i] = "failed") =>
        \A i \in 1..Len(args.files) :
            args.files[i].readable => batch.tasks[i] = "done"

(* ======================================================================= *)
(* hendrics/efsearch.py: folding_search                                    *)
(* ======================================================================= *)
\* frequencies are binary floating-point numbers with a significand of
\* Prec bits (53 in the float64 of the source), rounded to nearest, ties to
\* even
Prec == 8
\* fmin, fmax and --step are given with one decimal, up to MaxTenths / 10
MaxTenths == 4
\* largest oversampling factor
MaxOversample == 2
\* event times and the start of the first GTI are in 0..MaxObs
MaxObs == 3

\* arithmetic on exact fractions
FracAdd(x, y) == Frac(x[1] * y[2] + y[1] * x[2], x[2] * y[2])

FracSub(x, y) == Frac(x[1] * y[2] - y[1] * x[2], x[2] * y[2])

FracMul(x, y) == Frac(x[1] * y[1], x[2] * y[2])

\* x / y, y not zero
FracDiv(x, y) == Frac(x[1] * y[2], x[2] * y[1])

FracLess(x, y) == x[1] * y[2] < y[1] * x[2]

Whole(n) == <<n, 1>>

RECURSIVE Pow2(_)
Pow2(k) == IF k <= 0 THEN 1 ELSE 2 * Pow2(k - 1)

\* the significands are the integers from MinSignificand to
\* 2 * MinSignificand - 1
MinSignificand == Pow2(Prec - 1)

\* n / d scaled by a power of two into [2^(Prec-1), 2^Prec): <<n', d', e>>
\* with n / d = (n' / d') * 2^e
RECURSIVE Normalise(_, _, _)
Normalise(n, d, e) ==
    IF n < MinSignificand * d THEN Normalise(2 * n, d, e - 1)
    ELSE IF n >= 2 * MinSignificand * d THEN Normalise(n, 2 * d, e + 1)
    ELSE <<n, d, e>>

\* the floating-point number nearest to the fraction x
RoundFloat(x) ==
    IF x[1] = 0 THEN Whole(0)
    ELSE
        LET s   == IF x[1] < 0 THEN -1 ELSE 1
            nde == Normalise(Abs(x[1]), x[2], 0)
            q   == nde[1] \div nde[2]
            r   == nde[1] % nde[2]
            m   == IF 2 * r > nde[2] \/ (2 * r = nde[2] /\ q % 2 = 1)
                   THEN q + 1 ELSE q
        IN  Frac(s * m * Pow2(nde[3]), Pow2(-nde[3]))

FloatAdd(x, y) == RoundFloat(FracAdd(x, y))

FloatSub(x, y) == RoundFloat(FracSub(x, y))

FloatMul(x, y) == RoundFloat(FracMul(x, y))

FloatDiv(x, y) == RoundFloat(FracDiv(x, y))

\* the least integer not below x, and 0 for a negative x
CeilOrZero(x) == IF x[1] <= 0 THEN 0 ELSE (x[1] + x[2] - 1) \div x[2]

\* np.arange(start, stop, step) of floats, step > 0: the length is
\* ceil((stop - start) / step); the first two values are start and
\* start + step, the others start + i * delta, delta being the difference
\* of the first two
NpArangeFloat(start, stop, step) ==
    LET next  == FloatAdd(start, step)
        delta == FloatSub(next, start)
    IN  [i \in 1..CeilOrZero(FloatDiv(FloatSub(stop, start), step)) |->
            IF i = 1 THEN start
            ELSE IF i = 2 THEN next
            ELSE FloatAdd(start, FloatMul(Whole(i - 1), delta))]

\* func(times, trial_freqs): the statistic of the events at each trial
\* frequency, kept as the name of the value
FoldingStats(func, times, trial_freqs) ==
    [i \in 1..Len(trial_freqs) |-> <<func, times, trial_freqs[i]>>]

\* events is the loaded event list: its times and its GTIs
folding_search(events, fmin, fmax, step, func, oversample) ==
    IF Len(events.time) = 0 THEN Raised("IndexError")
    ELSE
        LET times  == [i \in 1..Len(events.time) |->
                          events.time[i] - events.gti[1][1]]
            length == times[Len(times)]
            step1  == IF step = None
                      THEN FloatDiv(FloatDiv(Whole(1), oversample),
                                    Whole(length))
                      ELSE step
            trial_freqs == NpArangeFloat(fmin, fmax, step1)
        IN  Returned([frequencies |-> trial_freqs,
                      stats |-> FoldingStats(func, times, trial_freqs),
                      step |-> step1, length |-> length])

(* ------------------------------ the call ------------------------------- *)
\* float(text) of a command-line number with one decimal
FloatOfTenths(k) == RoundFloat(Frac(k, 10))

\* event lists whose last event is later than the start of the first GTI
ObsEvents ==
    {e \in [time : {s \in UNION {[1..n -> 0..MaxObs] : n \in 0..2} :
                       IsAscending(s)},
            gti : {<<<<a, MaxObs + 1>>>> : a \in 0..MaxObs}] :
        Len(e.time) > 0 => e.time[Len(e.time)] > e.gti[1][1]}

InitFold ==
    /\ call = "folding_search"
    /\ \E events \in ObsEvents, fmin \in 0..MaxTenths, fmax \in 0..MaxTenths,
          step \in 0..MaxTenths, oversample \in 1..MaxOversample :
          args = [events |-> events, fmin |-> FloatOfTenths(fmin),
                  fmax |-> FloatOfTenths(fmax),
                  step |-> IF step = 0 THEN None ELSE FloatOfTenths(step),
                  oversample |-> Whole(oversample),
                  func |-> "epoch_folding_search"]
    /\ ret = Pending
    /\ batch = NoBatch
    /\ widget = NoWidget

CallFoldingSearch ==
    /\ call = "folding_search" /\ ret = Pending
    /\ ret' = folding_search(args.events, args.fmin, args.fmax, args.step,
                             args.func, args.oversample)
    /\ UNCHANGED <<call, args, batch, widget>>

NextFold == CallFoldingSearch

SpecFold == InitFold /\ [][NextFold]_vars

(* ------------------------------ C17 ------------------------------------ *)
\* C17: the trial frequencies of folding_search start at fmin and are all
\* strictly below fmax, so that fmax is never one of them.
C17_TrialsBelowFmax ==
    (call = "folding_search" /\ ret # Pending /\ ret.raised = "none") =>
        LET f == ret.value.frequencies
        IN  /\ Len(f) > 0 => f[1] = args.fmin
            /\ \A i \in 1..Len(f) : FracLess(f[i], args.fmax)

(* ======================================================================= *)
(* hendrics/efsearch.py: fit, _common_main                                 *)
(* ======================================================================= *)
\* most input files on one command line of HENefsearch / HENzsearch
MaxSearchFiles == 2
\* the statistic of a trial frequency is in 0..MaxStat
MaxStat == 2

\* a local variable of _common_main: not assigned yet, or holding a value
Unbound == [bound |-> FALSE, value |-> <<>>]

Bound(v) == [bound |-> TRUE, value |-> v]

\* the index, counted from 1, of the largest value of s; the first of them
\* (np.argmax), or the last of them when last is TRUE
ArgMax(s, last) ==
    CHOOSE i \in 1..Len(s) :
        /\ \A j \in 1..Len(s) : s[j] <= s[i]
        /\ \A j \in 1..Len(s) :
              s[j] = s[i] => IF last THEN j <= i ELSE i <= j

\* s without its i-th element
Without(s, i) == [k \in 1..(Len(s) - 1) |-> IF k < i THEN s[k] ELSE s[k + 1]]

\* the <<x, stat>> pairs by decreasing stat: np.argsort(best_stat)[::-1]
RECURSIVE SortDescending(_)
SortDescending(pairs) ==
    IF Len(pairs) = 0 THEN <<>>
    ELSE LET i == ArgMax([k \in 1..Len(pairs) |-> pairs[k][2]], TRUE)
         IN  <<pairs[i]>> \o SortDescending(Without(pairs, i))

\* search_best_peaks(x, stat, threshold): the largest value of each run of
\* contiguous values that are at or above threshold, by decreasing statistic
search_best_peaks(x, stat, threshold) ==
    IF Len(stat) = 0 THEN [peaks |-> <<>>, peak_stat |-> <<>>]
    ELSE
        LET above   == [i \in 1..Len(stat) |-> ~FracLess(Whole(stat[i]), threshold)]
            regions == mp_contiguous_regions(above)
            best    == [k \in 1..Len(regions) |->
                          LET lo == regions[k][1]
                              hi == regions[k][2]
                              i  == lo + ArgMax([j \in 1..(hi - lo) |-> stat[lo + j]],
                                                FALSE)
                          IN  <<x[i], stat[i]>>]
            sorted  == SortDescending(best)
        IN  [peaks     |-> [k \in 1..Len(sorted) |-> sorted[k][1]],
             peak_stat |-> [k \in 1..Len(sorted) |-> sorted[k][2]]]

\* fit(frequencies, stats, center_freq, ...): np.argmin of an empty array
\* raises ValueError, frequencies[1] of a one-element array IndexError;
\* fit_sinc and fit_gaussian raise for the centre frequencies in failing
fit(frequencies, stats, center_freq, sinc, failing) ==
    IF Len(frequencies) = 0 THEN Raised("ValueError")
    ELSE IF ~sinc /\ Len(frequencies) < 2 THEN Raised("IndexError")
    ELSE IF center_freq \in failing THEN Raised("FitError")
    ELSE Returned(<<IF sinc THEN "sinc" ELSE "gaussian", center_freq>>)

\* the loop over best_peaks (lines 300-311); best_models holds the fits made,
\* and an exception of a fit leaves the loop
RECURSIVE FitLoop(_, _, _, _, _, _, _)
FitLoop(a, frequencies, stats, search_width, failing, best_peaks, best_models) ==
    IF Len(best_peaks) = 0 THEN Returned(best_models)
    ELSE
        LET f    == best_peaks[1]
            good == [i \in 1..Len(frequencies) |->
                        LET d == FloatSub(frequencies[i], f)
                        IN  FracLess(<<Abs(d[1]), d[2]>>, search_width)]
            best_fun ==
                IF a.curve \notin {"sinc", "gaussian"} THEN Raised("ValueError")
                ELSE fit(Select(frequencies, good), Select(stats, good), f,
                         a.curve = "sinc", failing)
        IN  IF best_fun.raised # "none" THEN best_fun
            ELSE FitLoop(a, frequencies, stats, search_width, failing,
                         Tail(best_peaks), Append(best_models, best_fun.value))

\* line 288
Threshold(conflevel) == FloatSub(Whole(1), FloatDiv(conflevel, Whole(100)))

\* lines 274, 276-279
Kind(func) == IF func = "z_n_search" THEN "Z2n" ELSE "EF"

\* lines 311-315, fits being what the loop over the candidates made if the
\* run fits.  The outcome has the locals after the pass and, in steps, the
\* save_folding call if the pass got to it.
Fitted(a, func, file, loc, efperiodogram, fits) ==
    IF a.fit_candidates /\ fits.raised # "none"
    THEN Outcome(fits.raised, loc, <<>>)
    ELSE
        LET best_models == IF a.fit_candidates THEN Bound(fits.value)
                           ELSE loc.best_models
        IN  IF ~best_models.bound
            THEN Outcome("UnboundLocalError", loc, <<>>)
            ELSE Outcome("none", [loc EXCEPT !.best_models = best_models],
                         <<[path |-> <<file.name, Kind(func)>>,
                            efperiodogram |->
                                [efperiodogram EXCEPT
                                    !.best_fits = best_models.value]]>>)

\* lines 285-310, fv being what folding_search returned and best what
\* search_best_peaks returns for it; loc holds the local variables
\* best_peaks and best_models; the periodogram of the file stands for the
\* statistics folding_search computed
Candidates(a, func, file, loc, fv, best) ==
    LET efp0 == [freq |-> fv.frequencies, stat |-> file.periodogram,
                 kind |-> Kind(func), nbin |-> a.nbin, N |-> a.N,
                 peaks |-> None, peak_stat |-> None, best_fits |-> None]
        loc1 == IF a.find_candidates
                THEN [loc EXCEPT !.best_peaks = Bound(best.peaks)]
                ELSE loc
        efp1 == IF a.find_candidates
                THEN [efp0 EXCEPT !.peaks = best.peaks,
                                  !.peak_stat = best.peak_stat]
                ELSE IF a.fit_frequency # None
                THEN [efp0 EXCEPT !.peaks = loc.best_peaks.value,
                                  !.peak_stat = <<0>>]
                ELSE efp0
    IN  IF ~a.find_candidates /\ a.fit_frequency # None /\ ~loc.best_peaks.bound
        THEN Outcome("UnboundLocalError", loc, <<>>)
        ELSE Fitted(a, func, file, loc1, efp1,
                    FitLoop(a, fv.frequencies, file.periodogram,
                            FloatMul(FloatMul(Whole(5), a.oversample), fv.step),
                            {fv.frequencies[i] : i \in file.unfittable},
                            loc1.best_peaks.value, <<>>))

\* one pass of the loop over the files (lines 271-315), found being what
\* folding_search returned
Searched(a, func, file, loc, found) ==
    IF found.raised # "none" THEN Outcome(found.raised, loc, <<>>)
    ELSE Candidates(a, func, file, loc, found.value,
                    search_best_peaks(found.value.frequencies,
                                      file.periodogram, Threshold(a.conflevel)))

\* the loop over the files: an exception ends it
RECURSIVE SearchLoop(_, _, _, _, _)
SearchLoop(a, func, i_f, loc, saved) ==
    IF i_f >= Len(a.files) THEN Outcome("none", None, saved)
    ELSE LET pass == Searched(a, func, a.files[i_f + 1], loc,
                              folding_search(a.files[i_f + 1].events, a.fmin,
                                             a.fmax, a.step, func, a.oversample))
         IN  IF pass.raised # "none" THEN Outcome(pass.raised, <<>>, saved)
             ELSE SearchLoop(a, func, i_f + 1, pass.value, saved \o pass.steps)

\* lines 264-268: a run that fits finds candidates unless it is given the
\* frequency to fit
FindOrFit(parsed) ==
    IF parsed.fit_candidates
    THEN [parsed EXCEPT !.find_candidates = (parsed.fit_frequency = None)]
    ELSE parsed

\* lines 262-268, then the loop; parsed holds the command line's options
common_main(parsed, func) ==
    SearchLoop(FindOrFit(parsed), func, 0,
               [best_peaks  |-> IF parsed.fit_candidates
                                   /\ parsed.fit_frequency # None
                                THEN Bound(<<parsed.fit_frequency>>)
                                ELSE Unbound,
                best_models |-> Unbound],
               <<>>)

(* ------------------------------ the call ------------------------------- *)
\* the event list of the searched files: two events, 2 s apart, the first
\* at the start of the GTI
SearchEvents == [time |-> <<0, 2>>, gti |-> <<<<0, 4>>>>]

\* what a file with n trial frequencies holds: its statistic at each of
\* them, and the trial frequencies where the fit routine fails (none, or
\* the last one), which matters only to a run that fits the candidates it
\* finds with one of the two curves
SearchFiles(n, fitting) ==
    {[events |-> SearchEvents, periodogram |-> p, unfittable |-> u] :
        p \in [1..n -> 0..MaxStat],
        u \in {{}} \cup (IF fitting THEN {{n}} ELSE {})}

\* --conflevel and --curve keep their defaults in the runs that do not read
\* them
InitSearch ==
    /\ call = "_common_main"
    /\ \E fmax \in {10, 20}, find_candidates \in BOOLEAN,
          fit_candidates \in BOOLEAN,
          fit_frequency \in {None, FloatOfTenths(10), FloatOfTenths(90)},
          func \in {"epoch_folding_search", "z_n_search"},
          k \in 1..MaxSearchFiles :
          \E conflevel \in IF (fit_candidates /\ fit_frequency = None)
                               \/ (~fit_candidates /\ find_candidates)
                            THEN {50, 90} ELSE {99},
             curve \in IF fit_candidates THEN {"sinc", "gaussian", "lorentzian"}
                       ELSE {"sinc"} :
             LET n == Len(NpArangeFloat(FloatOfTenths(5), FloatOfTenths(fmax),
                                        FloatOfTenths(5)))
             IN  \E held \in [1..k -> SearchFiles(n, fit_candidates
                                         /\ fit_frequency = None
                                         /\ curve \in {"sinc", "gaussian"})] :
                    args = [parsed |->
                               [files |-> [i \in 1..k |->
                                   [name |-> FileNames[i],
                                    events |-> held[i].events,
                                    periodogram |-> held[i].periodogram,
                                    unfittable |-> held[i].unfittable]],
                                fmin |-> FloatOfTenths(5),
                                fmax |-> FloatOfTenths(fmax), nbin |-> 128,
                                step |-> None, oversample |-> Whole(1),
                                find_candidates |-> find_candidates,
                                conflevel |-> Whole(conflevel),
                                fit_candidates |-> fit_candidates,
                                curve |-> curve,
                                fit_frequency |-> fit_frequency, N |-> 2],
                            func |-> func]
    /\ ret = Pending
    /\ batch = NoBatch
    /\ widget = NoWidget

CallCommonMain ==
    /\ call = "_common_main" /\ ret = Pending
    /\ ret' = common_main(args.parsed, args.func)
    /\ UNCHANGED <<call, args, batch, widget>>

NextSearch == CallCommonMain

SpecSearch == InitSearch /\ [][NextSearch]_vars

(* ----------------------------- the claims ------------------------------ *)
SearchReturned == call = "_common_main" /\ ret # Pending

\* the file of the command line whose folding result was saved
SavedFor(file) ==
    \E k \in 1..Len(ret.steps) :
        ret.steps[k].path = <<file.name, Kind(args.func)>>

EveryFileSaved ==
    /\ ret.raised = "none"
    /\ \A i \in 1..Len(args.parsed.files) : SavedFor(args.parsed.files[i])

\* C14: in a run of _common_main that fits the candidates with one of the
\* two curves, a fit that fails does not end the run: the run returns, and
\* the folding result of every file of the command line is saved, with a
\* fit or a report for every candidate of the file.
C14_FitFailureIsolated ==
    (SearchReturned /\ args.parsed.fit_candidates
        /\ args.parsed.curve \in {"sinc", "gaussian"})
    => /\ EveryFileSaved
       /\ \A k \in 1..Len(ret.steps) :
             Len(ret.steps[k].efperiodogram.best_fits)
                = Len(ret.steps[k].efperiodogram.peaks)

\* the least value the detection level can have: the statistic of a search
\* has at least two degrees of freedom, the chi-squared survival function of
\* x with two or more of them is at least exp(-x / 2), and so the level of
\* the false-alarm probability p is at least -2 ln p, whose integer part this
\* is for the two confidence levels of the runs
DetectionLevelFloor(conflevel) == IF conflevel = Whole(50) THEN 1 ELSE 4

\* C15: in a run of _common_main that finds candidates and saves a result,
\* the threshold of the peak search is the detection level of the
\* false-alarm probability 1 - conflevel / 100, and every candidate stored
\* in a saved result has a statistic above that level.
C15_ThresholdIsDetectionLevel ==
    (SearchReturned /\ FindOrFit(args.parsed).find_candidates
        /\ Len(ret.steps) > 0)
    => /\ ~FracLess(Threshold(args.parsed.conflevel),
                    Whole(DetectionLevelFloor(args.parsed.conflevel)))
       /\ \A k \in 1..Len(ret.steps) :
             \A j \in 1..Len(ret.steps[k].efperiodogram.peak_stat) :
                ret.steps[k].efperiodogram.peak_stat[j]
                    > DetectionLevelFloor(args.parsed.conflevel)

\* C16: a run of _common_main without --fit-candidates, with or without
\* --find-candidates, returns with the folding result of every file of the
\* command line saved.
C16_SavesWithoutFit ==
    (SearchReturned /\ ~args.parsed.fit_candidates) => EveryFileSaved

(* ======================================================================= *)
(* C23, C24: what mp_cross_gtis returns for two lists                      *)
(* ======================================================================= *)
\* mp_cross_gtis returned for two lists that have intervals
CrossedTwo ==
    /\ call = "mp_cross_gtis"
    /\ ret # Pending
    /\ Len(args.gti_list) = 2
    /\ \A k \in 1..2 : Len(args.gti_list[k]) > 0

\* the interval r is inside an interval of the list gtis
InsideOne(r, gtis) ==
    \E a \in 1..Len(gtis) : gtis[a][1] <= r[1] /\ r[2] <= gtis[a][2]

\* C23: every interval mp_cross_gtis returns for two sorted non-overlapping
\* GTI lists lies inside an interval of the first list and inside an
\* interval of the second.
C23_CrossInsideEveryInput ==
    CrossedTwo =>
        /\ ret.raised = "none"
        /\ \A k \in 1..Len(ret.value) :
              \A l \in 1..2 : InsideOne(ret.value[k], args.gti_list[l])

\* the lists differ, each has a gap, and an interval comes back that is
\* shorter than the intervals of the two lists it lies in
C23_Witness ==
    /\ CrossedTwo
    /\ ret.raised = "none"
    /\ Len(args.gti_list[1]) = 2 /\ Len(args.gti_list[2]) = 2
    /\ args.gti_list[1] # args.gti_list[2]
    /\ \E k \in 1..Len(ret.value) :
          \A l \in 1..2 : \A a \in 1..2 : ret.value[k] # args.gti_list[l][a]

WelchWithoutRoom ==
    /\ call \in {"mp_welch_pds", "mp_welch_cpds"}
    /\ ret # Pending
    /\ \A k \in 1..Len(args.gti) :
          args.gti[k][2] - args.gti[k][1] < args.fftlen

\* C25: when no GTI is at least fftlen long, mp_welch_pds and mp_welch_cpds
\* raise an error: they return no spectrum and no segment count.
C25_NoSegmentFails ==
    WelchWithoutRoom => ret.raised \notin {"none", "pending"}

\* the light curve has samples and counts, the GTIs are there but too short
C25_Witness ==
    /\ WelchWithoutRoom
    /\ Len(args.gti) > 0
    /\ Len(args.time) > 1
    /\ ret.raised = "ZeroDivisionError"

(* ======================================================================= *)
(* C28: gti_split with noclobber and an existing chunk                     *)
(* ======================================================================= *)
\* C28: in gti_split mode with noclobber, treat_event_file writes the chunk
\* of every GTI that is 4 s long or longer and as long as min_length, has
\* events, and whose chunk file does not exist, whatever chunk files of
\* other GTIs exist.
C28_LaterChunksWritten ==
    (TreatReturned /\ args.noclobber /\ args.gti_split /\ args.file.readable)
    => \A ig \in 0..(Len(args.file.gtis) - 1) :
          (/\ GtiLength(args.file.gtis[ig + 1]) >= 4
           /\ GtiLength(args.file.gtis[ig + 1]) >= args.min_length
           /\ HasEvents(args.file, args.file.gtis[ig + 1])
           /\ OutfileLocal(args.file.name, ig) \notin args.existing)
          => OutfileLocal(args.file.name, ig) \in SavedPaths(Len(ret.steps))

(* ======================================================================= *)
(* mp_fspec.py: mp_calc_fspec                                              *)
(* ======================================================================= *)
\* most light curve files on one command line
MaxLcFiles == 3
\* the sampling time of a light curve file is in 1..MaxDt
MaxDt == 2
\* the light curves start at 0 and stop at LcSpan
LcSpan == 4

\* the '-k' option (lines 266-279): <<do_pds, do_cpds>>
KindSelection(kinds) ==
    <<\E k \in 1..Len(kinds) : kinds[k] = "PDS",
      \E k \in 1..Len(kinds) : kinds[k] \in {"CPDS", "cos", "cospectrum", "lag"}>>

\* "if bintime <= dt: bintime = dt"
RaisedToDt(bintime, dt) == IF bintime <= dt THEN dt ELSE bintime

\* the loop of lines 166-185 from the file at index k on; the outcome has
\* the locals bintime and dt after the loop and, in steps, the calls of
\* mp_welch_pds and pickle.dump
RECURSIVE PdsLoop(_, _, _, _, _, _)
PdsLoop(files, k, fftlen, bintime, dt, steps) ==
    IF k > Len(files) THEN Outcome("none", [bintime |-> bintime, dt |-> dt], steps)
    ELSE
        LET lcdata == files[k]
            bt     == RaisedToDt(bintime, lcdata.dt)
            called == Append(steps, [op |-> "mp_welch_pds", file |-> lcdata.name,
                                     time |-> lcdata.time, lc |-> lcdata.lc,
                                     bintime |-> bt])
            welch  == mp_welch_pds(lcdata.time, lcdata.lc, bt, fftlen, lcdata.gti)
        IN  IF welch.raised # "none" THEN Outcome(welch.raised, <<>>, called)
            ELSE PdsLoop(files, k + 1, fftlen, bt, lcdata.dt,
                         Append(called,
                                [op |-> "dump", path |-> <<lcdata.name, "_pds">>,
                                 time |-> lcdata.time[1],
                                 npds |-> welch.value.npds, fftlen |-> fftlen,
                                 Instr |-> lcdata.instr]))

\* s[start:stop:2], start and stop counted from 0
EveryOther(s, start, stop) ==
    [j \in 1..(IF stop <= start THEN 0 ELSE (stop - start + 1) \div 2) |->
        s[start + 2 * (j - 1) + 1]]

\* lc1[good] and lc2[good] in mp_welch_cpds when good, as long as time, is
\* shorter than the light curves: a numpy that checks the length raises
\* IndexError, an older one reads the mask as false past its end
WelchCpdsOf(time, lc1, lc2, bintime, fftlen, gti, strict) ==
    IF Len(time) = Len(lc1) /\ Len(time) = Len(lc2)
    THEN mp_welch_cpds(time, lc1, lc2, bintime, fftlen, gti)
    ELSE IF Len(mp_decide_spectrum_intervals(gti, fftlen)) = 0
    THEN Raised("ZeroDivisionError")
    ELSE IF strict \/ Len(time) > Len(lc1) \/ Len(time) > Len(lc2)
    THEN Raised("IndexError")
    ELSE mp_welch_cpds(time, SubSeq(lc1, 1, Len(time)), SubSeq(lc2, 1, Len(time)),
                       bintime, fftlen, gti)

\* lines 213-234 for one pair, gti being what mp_cross_gtis returned
CpdsOfPair(lcdata1, lcdata2, i_f, fftlen, bintime, strict, steps, gti) ==
    LET time1  == Select(lcdata1.time,
                         mp_create_gti_mask(lcdata1.time, gti, <<"scalar", 0>>, 0).mask)
        time2  == Select(lcdata2.time,
                         mp_create_gti_mask(lcdata2.time, gti, <<"scalar", 0>>, 0).mask)
        called == Append(steps, [op |-> "mp_welch_cpds", pair |-> i_f,
                                 time |-> time1, lc1 |-> lcdata1.lc,
                                 lc2 |-> lcdata2.lc, bintime |-> bintime])
        welch  == WelchCpdsOf(time1, lcdata1.lc, lcdata2.lc, bintime, fftlen, gti,
                              strict)
    IN  IF time1 # time2 THEN Outcome("AssertionError", <<>>, steps)
        ELSE IF welch.raised # "none" THEN Outcome(welch.raised, <<>>, called)
        ELSE IF Len(gti) = 0 THEN Outcome("IndexError", <<>>, called)
        ELSE Outcome("none", None,
                     Append(called,
                            [op |-> "dump", path |-> <<"cpds", i_f>>,
                             time |-> gti[1][1], ncpds |-> welch.value.npds,
                             fftlen |-> fftlen,
                             Instrs |-> <<lcdata1.instr, lcdata2.instr>>]))

\* the loop of lines 198-234 from the pair at index i_f on, counted from 0;
\* dt is the local the first loop left
RECURSIVE CpdsLoop(_, _, _, _, _, _, _, _)
CpdsLoop(files1, files2, i_f, fftlen, bintime, dt, strict, steps) ==
    IF i_f >= Len(files1) THEN Outcome("none", None, steps)
    ELSE
        LET lcdata1 == files1[i_f + 1]
            lcdata2 == files2[i_f + 1]
            gti     == mp_cross_gtis(<<lcdata1.gti, lcdata2.gti>>, 1)
            pair    == CpdsOfPair(lcdata1, lcdata2, i_f, fftlen,
                                  RaisedToDt(bintime, dt), strict, steps, gti.value)
        IN  IF lcdata1.instr = lcdata2.instr \/ lcdata1.dt # lcdata2.dt
            THEN Outcome("AssertionError", <<>>, steps)
            ELSE IF gti.raised # "none" THEN Outcome(gti.raised, <<>>, steps)
            ELSE IF pair.raised # "none" THEN pair
            ELSE CpdsLoop(files1, files2, i_f + 1, fftlen, RaisedToDt(bintime, dt),
                          dt, strict, pair.steps)

\* lines 187-196 and the second loop, first being the outcome of the first
\* loop: "del freq, ..." of names no pass of the first loop has bound raises
\* UnboundLocalError
AfterPds(files, fftlen, calc_pds, calc_cpds, strict, first) ==
    IF first.raised # "none" THEN first
    ELSE IF ~calc_pds \/ Len(files) = 0
    THEN Outcome("UnboundLocalError", <<>>, first.steps)
    ELSE IF ~calc_cpds THEN Outcome("none", None, first.steps)
    ELSE IF Len(EveryOther(files, 0, Len(files) - 1))
              # Len(EveryOther(files, 1, Len(files)))
    THEN Outcome("AssertionError", <<>>, first.steps)
    ELSE CpdsLoop(EveryOther(files, 0, Len(files) - 1),
                  EveryOther(files, 1, Len(files)), 0, fftlen,
                  first.value.bintime, first.value.dt, strict, first.steps)

\* strict: the numpy of the build checks the length of a boolean index
mp_calc_fspec(files, fftlen, calc_pds, calc_cpds, bintime, strict) ==
    AfterPds(files, fftlen, calc_pds, calc_cpds, strict,
             IF calc_pds THEN PdsLoop(files, 1, fftlen, bintime, 0, <<>>)
             ELSE Outcome("none", [bintime |-> bintime, dt |-> 0], <<>>))

(* ------------------------------ the call ------------------------------- *)
\* a light curve file: samples every dt from 0 to LcSpan, one count in every
\* other sample, GTIs with edges at even times
LcFiles ==
    {[time |-> NpArange(0, LcSpan, dt),
      lc |-> [i \in 1..Len(NpArange(0, LcSpan, dt)) |-> i % 2],
      dt |-> dt, gti |-> gti, instr |-> instr] :
        dt \in 1..MaxDt, instr \in {"FPMA", "FPMB"},
        gti \in {g \in GtiLists : /\ Len(g) > 0
                                  /\ \A k \in 1..Len(g) :
                                        /\ g[k][1] % 2 = 0 /\ g[k][2] % 2 = 0
                                        /\ g[k][2] <= LcSpan}}

InitFspec ==
    /\ call = "mp_calc_fspec"
    /\ \E n \in 1..MaxLcFiles, fftlen \in 1..MaxFft, bintime \in 1..MaxDt,
          strict \in BOOLEAN,
          kinds \in {<<"PDS">>, <<"CPDS">>, <<"PDS", "CPDS", "cos">>} :
          \E held \in [1..n -> LcFiles] :
             args = [files |-> [i \in 1..n |->
                                   [name |-> FileNames[i], time |-> held[i].time,
                                    lc |-> held[i].lc, dt |-> held[i].dt,
                                    gti |-> held[i].gti, instr |-> held[i].instr]],
                     fftlen |-> fftlen, bintime |-> bintime,
                     calc_pds |-> KindSelection(kinds)[1],
                     calc_cpds |-> KindSelection(kinds)[2],
                     strict |-> strict]
    /\ ret = Pending
    /\ batch = NoBatch
    /\ widget = NoWidget

CallCalcFspec ==
    /\ call = "mp_calc_fspec" /\ ret = Pending
    /\ ret' = mp_calc_fspec(args.files, args.fftlen, args.calc_pds, args.calc_cpds,
                            args.bintime, args.strict)
    /\ UNCHANGED <<call, args, batch, widget>>

NextFspec == CallCalcFspec

SpecFspec == InitFspec /\ [][NextFspec]_vars

(* ----------------------------- the claims ------------------------------ *)
FspecReturned == call = "mp_calc_fspec" /\ ret # Pending

\* the calls of mp_welch_pds and mp_welch_cpds the run made
WelchCalls(op) == {k \in 1..Len(ret.steps) : ret.steps[k].op = op}

\* C21: with calc_cpds, a file list with an odd number of entries makes
\* mp_calc_fspec fail, and no cross spectrum is computed from a part of
\* the list.
C21_OddListFails ==
    (FspecReturned /\ args.calc_cpds /\ Len(args.files) % 2 = 1)
    => /\ ret.raised # "none"
       /\ WelchCalls("mp_welch_cpds") = {}

\* C26: with calc_pds = FALSE and calc_cpds = TRUE ('-k CPDS') and an even
\* number of files, mp_calc_fspec does not raise for want of the power
\* spectrum stage, and when it returns it has written one cross spectrum
\* for each pair of consecutive files.
C26_CpdsWithoutPds ==
    (FspecReturned /\ ~args.calc_pds /\ args.calc_cpds
        /\ Len(args.files) % 2 = 0)
    => /\ ret.raised # "UnboundLocalError"
       /\ ret.raised = "none" =>
             \A i_f \in 0..((Len(args.files) \div 2) - 1) :
                \E k \in 1..Len(ret.steps) :
                   /\ ret.steps[k].op = "dump"
                   /\ ret.steps[k].path = <<"cpds", i_f>>

\* the file of the list that has the name
FileNamed(name) ==
    CHOOSE f \in {args.files[i] : i \in 1..Len(args.files)} : f.name = name

\* C27: the bin time mp_calc_fspec hands to mp_welch_pds for a file is the
\* larger of the requested bin time and the dt of that file, and the one it
\* hands to mp_welch_cpds for a pair is the larger of the requested bin time
\* and the dt of the pair's files, whatever files came earlier in the list.
C27_BinTimeOfFile ==
    FspecReturned =>
        /\ \A k \in WelchCalls("mp_welch_pds") :
              ret.steps[k].bintime
                 = Max2(args.bintime, FileNamed(ret.steps[k].file).dt)
        /\ \A k \in WelchCalls("mp_welch_cpds") :
              ret.steps[k].bintime
                 = Max2(args.bintime, args.files[2 * ret.steps[k].pair + 1].dt)

\* C29: when the common GTI removes a sample of the first light curve of a
\* pair, the time array and the two count arrays mp_calc_fspec hands to
\* mp_welch_cpds have the same length.
C29_CpdsArraysAligned ==
    FspecReturned =>
        \A k \in WelchCalls("mp_welch_cpds") :
           Len(ret.steps[k].time)
                < Len(args.files[2 * ret.steps[k].pair + 1].time)
           => /\ Len(ret.steps[k].lc1) = Len(ret.steps[k].time)
              /\ Len(ret.steps[k].lc2) = Len(ret.steps[k].time)

(* ======================================================================= *)
(* mp_base.py: mp_detection_level, mp_probability_of_power                 *)
(* ======================================================================= *)
(* A probability is kept as the expression that gives it: n * sf(x, df),   *)
(* or 1 - n * sf(x, df) when comp is TRUE, with sf the survival function   *)
(* of the chi-squared distribution with df degrees of freedom, n and x     *)
(* exact fractions.  sf is one to one from the x >= 0 onto the             *)
(* probabilities in (0, 1] and isf is its inverse.                         *)
\* most bins of a spectrum
MaxBins == 3
\* most averaged spectra, largest rebinning factor
MaxSummed == 2
\* largest power level, as the argument of the chi-squared distribution
MaxChi2 == 4

\* stats.chi2.sf(x, df)
Chi2Sf(x, df) == [n |-> Whole(1), x |-> x, df |-> df, comp |-> FALSE]

\* stats.chi2.isf(p, df): the x with sf(x, df) = p; a p that is not written
\* as sf(x, df) stays as the expression isf(p, df)
Chi2Isf(p, df) ==
    IF p.n = Whole(1) /\ p.df = df /\ ~p.comp THEN p.x
    ELSE <<"isf", p, df>>

\* p / k and k * p for a probability p that is not a complement
Scaled(p, k) == [p EXCEPT !.n = FracMul(p.n, k)]

mp_detection_level(nbins, epsilon, n_summed_spectra, n_rebin) ==
    Returned(FracDiv(Chi2Isf(Scaled(epsilon, FracDiv(Whole(1), Whole(nbins))),
                             2 * n_summed_spectra * n_rebin),
                     Whole(n_summed_spectra * n_rebin)))

\* "return 1 - epsilon"
mp_probability_of_power(level, nbins, n_summed_spectra, n_rebin) ==
    Returned([Scaled(Chi2Sf(FracMul(level, Whole(n_summed_spectra * n_rebin)),
                            2 * n_summed_spectra * n_rebin),
                     Whole(nbins))
              EXCEPT !.comp = TRUE])

(* ------------------------------ the calls ------------------------------ *)
\* the levels are multiples of 1 / 2; epsilon is the chance probability of
\* a level of the grid in a spectrum of the call's shape
InitLevel ==
    /\ \E nbins \in 1..MaxBins, M \in 1..MaxSummed, W \in 1..MaxSummed,
          x \in 0..MaxChi2 :
          \/ /\ call = "mp_detection_level"
             /\ args = [nbins |-> nbins,
                        epsilon |-> Scaled(Chi2Sf(Whole(x), 2 * M * W), Whole(nbins)),
                        n_summed_spectra |-> M, n_rebin |-> W]
          \/ /\ call = "mp_probability_of_power"
             /\ args = [level |-> Frac(x, 2), nbins |-> nbins,
                        n_summed_spectra |-> M, n_rebin |-> W]
    /\ ret = Pending
    /\ batch = NoBatch
    /\ widget = NoWidget

CallDetectionLevel ==
    /\ call = "mp_detection_level" /\ ret = Pending
    /\ ret' = mp_detection_level(args.nbins, args.epsilon, args.n_summed_spectra,
                                 args.n_rebin)
    /\ UNCHANGED <<call, args, batch, widget>>

\* the level handed over is the argument of a pending call, or the level
\* mp_detection_level has returned
CallProbabilityOfPower ==
    \/ /\ call = "mp_probability_of_power" /\ ret = Pending
       /\ ret' = mp_probability_of_power(args.level, args.nbins,
                                         args.n_summed_spectra, args.n_rebin)
       /\ UNCHANGED <<call, args, batch, widget>>
    \/ /\ call = "mp_detection_level" /\ ret.raised = "none"
       /\ call' = "mp_probability_of_power"
       /\ args' = [level |-> ret.value, nbins |-> args.nbins,
                   n_summed_spectra |-> args.n_summed_spectra,
                   n_rebin |-> args.n_rebin, epsilon |-> args.epsilon]
       /\ ret' = mp_probability_of_power(ret.value, args.nbins,
                                         args.n_summed_spectra, args.n_rebin)
       /\ UNCHANGED <<batch, widget>>

NextLevel ==
    \/ CallDetectionLevel
    \/ CallProbabilityOfPower

SpecLevel == InitLevel /\ [][NextLevel]_vars

(* ----------------------------- the claim ------------------------------- *)
\* nbins * sf(level * M * W, 2 * M * W)
ChanceProbability(level, nbins, M, W) ==
    [n |-> Whole(nbins), x |-> FracMul(level, Whole(M * W)), df |-> 2 * M * W,
     comp |-> FALSE]

\* C22: mp_probability_of_power(level, nbins, M, W) returns
\* nbins * sf(level * M * W, 2 * M * W), and for the level that
\* mp_detection_level(nbins, eps, M, W) returned it returns eps.
C22_ProbabilityIsComplement ==
    (call = "mp_probability_of_power" /\ ret # Pending)
    => /\ ret.value = ChanceProbability(args.level, args.nbins,
                                        args.n_summed_spectra, args.n_rebin)
       /\ "epsilon" \in DOMAIN args => ret.value = args.epsilon

(***************************************************************************)
(* InteractivePhaseogram (hendrics/efsearch.py): a phaseogram with three   *)
(* sliders and two buttons.  Frequencies, slider values and times are      *)
(* exact fractions.  A slider is [val, valinit, valmin, valmax]; the white *)
(* lines are drawn straight or along a delay [freq, fdot, pepoch]; the     *)
(* phaseogram is held by the parameters it was computed with.  clicks      *)
(* keeps, for each click on Recalculate, the slider values at the click.   *)
(***************************************************************************)
MaxRecalc == 2

\* segment lengths and starting values a phaseogram is made with
SegLengths == {2, 10}

\* <<freq, fdot>>
StartValues == {<<Whole(1), Whole(0)>>, <<Frac(5, 2), Frac(-1, 4)>>}

RECURSIVE TenTo(_)
TenTo(k) == IF k <= 0 THEN 1 ELSE 10 * TenTo(k - 1)

\* 10 ** order
Pow10(order) == IF order >= 0 THEN Whole(TenTo(order)) ELSE Frac(1, TenTo(-order))

RECURSIVE FloorLog10(_)
FloorLog10(x) ==
    IF FracLess(x, Whole(10)) THEN 0 ELSE 1 + FloorLog10(FracDiv(x, Whole(10)))

\* np.int(np.log10(x)) of a positive x: the logarithm cut toward zero
IntLog10(x) ==
    IF FracLess(x, Whole(1)) THEN -FloorLog10(FracDiv(Whole(1), x))
    ELSE FloorLog10(x)

Slider(valmin, valmax, valinit) ==
    [val |-> valinit, valinit |-> valinit, valmin |-> valmin, valmax |-> valmax]

\* the lines as plot() and set_xdata(0.5) draw them
Straight == [freq |-> None, fdot |-> None, pepoch |-> None]

\* the times of nt segments of length tseg
SegTimes(tseg, nt) == [i \in 1..nt |-> (i - 1) * tseg]

\* InteractivePhaseogram.__init__
NewPhaseogram(freq, fdot, tseg, nt) ==
    LET times == SegTimes(tseg, nt)
        tobs  == Whole((At(times, 1) - At(times, 0)) * nt)
        delta_df_start == FracDiv(Whole(2), tobs)
        df_order_of_mag == IntLog10(delta_df_start)
        delta_df == FracDiv(delta_df_start, Pow10(df_order_of_mag))
        delta_dfdot_start == FracDiv(Whole(2), FracMul(tobs, tobs))
        dfdot_order_of_mag == IntLog10(delta_dfdot_start)
        delta_dfdot == FracDiv(delta_dfdot_start, Pow10(dfdot_order_of_mag))
    IN  [made |-> TRUE, freq |-> freq, fdot |-> fdot, nt |-> nt, times |-> times,
         phaseogr |-> [freq |-> freq, fdot |-> fdot, pepoch |-> None],
         df_order_of_mag |-> df_order_of_mag,
         dfdot_order_of_mag |-> dfdot_order_of_mag,
         lines |-> Straight,
         sfreq |-> Slider(FracSub(Whole(0), delta_df), delta_df, Whole(0)),
         sfdot |-> Slider(FracSub(Whole(0), delta_dfdot), delta_dfdot, Whole(0)),
         spepoch |-> Slider(Whole(0), Whole(At(times, nt - 1) - At(times, 0)),
                            Whole(0)),
         clicks |-> <<>>]

\* InteractivePhaseogram.update: the lines follow the sliders
update(w) ==
    [w EXCEPT !.lines =
        [freq |-> FracMul(w.sfreq.val, Pow10(w.df_order_of_mag)),
         fdot |-> FracMul(w.sfdot.val, Pow10(w.dfdot_order_of_mag)),
         pepoch |-> FracAdd(w.spepoch.val, Whole(At(w.times, 0)))]]

\* Slider.set_val: the value is taken and the callback on_changed
\* registered, update, is run
set_val(w, slider, val) == update([w EXCEPT ![slider].val = val])

\* Slider.reset: back to valinit, through set_val when the value differs
SliderReset(w, slider) ==
    IF w[slider].val # w[slider].valinit
    THEN set_val(w, slider, w[slider].valinit)
    ELSE w

ResetSliders(w) ==
    SliderReset(SliderReset(SliderReset(w, "sfreq"), "sfdot"), "spepoch")

\* the new values and the phaseogram of recalculate
Refolded(w) ==
    LET dfdot == FracMul(w.sfdot.val, Pow10(w.dfdot_order_of_mag))
        dfreq == FracMul(w.sfreq.val, Pow10(w.df_order_of_mag))
        pepoch == FracAdd(w.spepoch.val, Whole(At(w.times, 0)))
    IN  [w EXCEPT !.fdot = FracSub(@, dfdot),
                  !.freq = FracSub(@, dfreq),
                  !.phaseogr = [freq |-> FracSub(w.freq, dfreq),
                                fdot |-> FracSub(w.fdot, dfdot),
                                pepoch |-> pepoch],
                  !.lines = Straight]

recalculateKeepSliders(w) == Refolded(w)

\* InteractivePhaseogram.recalculate
recalculate(w) == ResetSliders(Refolded(w))

\* InteractivePhaseogram.reset
reset(w) == [ResetSliders(w) EXCEPT !.lines = Straight]

\* InteractivePhaseogram.get_values
get_values(w) == <<w.freq, w.fdot>>

\* where a slider can be dragged to: its ends and its initial value
Stops(s) == {s.valmin, s.valinit, s.valmax}

InitPhaseogram ==
    /\ \E start \in StartValues, tseg \in SegLengths, nt \in {2} :
          /\ args = [freq |-> start[1], fdot |-> start[2], tseg |-> tseg, nt |-> nt]
          /\ widget = NewPhaseogram(start[1], start[2], tseg, nt)
    /\ call = "InteractivePhaseogram"
    /\ ret = Pending
    /\ batch = NoBatch

\* a slider is dragged, while the figure is shown
MoveSlider ==
    /\ widget.made /\ ret = Pending
    /\ \E slider \in {"sfreq", "sfdot", "spepoch"} :
          \E val \in Stops(widget[slider]) :
             widget' = set_val(widget, slider, val)
    /\ UNCHANGED <<call, args, ret, batch>>

\* the button Reset is clicked
ClickReset ==
    /\ widget.made /\ ret = Pending
    /\ widget' = reset(widget)
    /\ UNCHANGED <<call, args, ret, batch>>

\* the button Recalculate is clicked
ClickRecalculate ==
    /\ widget.made /\ ret = Pending
    /\ Len(widget.clicks) < MaxRecalc
    /\ widget' = [recalculate(widget) EXCEPT
                     !.clicks = Append(@, [sfreq |-> widget.sfreq.val,
                                           sfdot |-> widget.sfdot.val])]
    /\ UNCHANGED <<call, args, ret, batch>>

\* the values are read when the figure has been closed: get_values changes
\* nothing, and no event reaches a closed figure
CallGetValues ==
    /\ widget.made
    /\ ret' = Returned(get_values(widget))
    /\ UNCHANGED <<call, args, batch, widget>>

NextPhaseogram ==
    \/ MoveSlider
    \/ ClickReset
    \/ ClickRecalculate
    \/ CallGetValues

SpecPhaseogram == InitPhaseogram /\ [][NextPhaseogram]_vars

(* ----------------------------- the claim ------------------------------- *)
\* the sums of the offsets the sliders stood for at the first k clicks
RECURSIVE OffsetSum(_, _, _)
OffsetSum(clicks, k, w) ==
    IF k = 0 THEN <<Whole(0), Whole(0)>>
    ELSE LET before == OffsetSum(clicks, k - 1, w)
         IN  <<FracAdd(before[1], FracMul(clicks[k].sfreq, Pow10(w.df_order_of_mag))),
               FracAdd(before[2], FracMul(clicks[k].sfdot, Pow10(w.dfdot_order_of_mag)))>>

Offsets == OffsetSum(widget.clicks, Len(widget.clicks), widget)

\* C30: whatever the sequence of update, reset and recalculate events,
\* get_values() is the initial (freq, fdot) minus the sum of the slider
\* offsets in force at each recalculate, and a recalculate that follows a
\* recalculate with no slider moved in between changes nothing.
C30_ValuesFollowRecalculate ==
    widget.made =>
        /\ get_values(widget) = <<FracSub(args.freq, Offsets[1]),
                                  FracSub(args.fdot, Offsets[2])>>
        /\ get_values(update(widget)) = get_values(widget)
        /\ get_values(reset(widget)) = get_values(widget)
        /\ get_values(recalculate(recalculate(widget)))
              = get_values(recalculate(widget))

C30_Witness ==
    /\ widget.made
    /\ Len(widget.clicks) = 2
    /\ widget.clicks[1].sfreq # Whole(0)
    /\ widget.clicks[2].sfdot # Whole(0)
    /\ widget.lines # Straight
    /\ ret = Returned(get_values(widget))
    /\ get_values(widget) # <<args.freq, args.fdot>>

====
